---- MODULE Spec2Model ----
(***************************************************************************)
(* A model of the front end of the compiler: the tokenizer                 *)
(* (internal/token.go, here src/unnamed/part_002) and the node tree with   *)
(* its stacks (src/internal/node.go).                                      *)
(*                                                                         *)
(* Bytes are ASCII codes, offsets are 0-based as in the Go source, and     *)
(* buf[i] of the source is buf[i + 1] here.  Every method of the           *)
(* tokenizer is an operator from tokenizer records to tokenizer records;   *)
(* a Go loop or label is a RECURSIVE operator that performs one iteration  *)
(* per unfolding.  A panic, and a loop that repeats from an unchanged      *)
(* state, end the evaluation with the field fault set.                     *)
(***************************************************************************)
EXTENDS Integers, Sequences, FiniteSets, TLC

VARIABLES
    buf,      \* Tokenizer.buf: the whole input
    z,        \* the Tokenizer
    toks,     \* the tokens Next returned that are not the ErrorToken
    nErr,     \* how many times Next returned ErrorToken
    tree,     \* the Node structure: the five structural fields of every node
    treePanic,\* whether the last tree operation panicked
    op,       \* the last tree operation called
    heap,     \* the other fields of the nodes, and the arrays their slices share
    stacks    \* a nodeStack, an insertionModeStack, and the last call on them

tokVars  == <<buf, z, toks, nErr>>
treeVars == <<tree, treePanic, op, heap, stacks>>
vars     == <<buf, z, toks, nErr, tree, treePanic, op, heap, stacks>>

----------------------------------------------------------------------------
(* Bytes.  A byte is written by its glyph; NUL, TAB, NL, FF, CR, DQ (the  *)
(* double quote), SQ (the single quote), BS (the backslash) and BT (the     *)
(* backtick) are written by name.                                          *)

LowerGlyphs == << "a","b","c","d","e","f","g","h","i","j","k","l","m",
                  "n","o","p","q","r","s","t","u","v","w","x","y","z" >>
UpperGlyphs == << "A","B","C","D","E","F","G","H","I","J","K","L","M",
                  "N","O","P","Q","R","S","T","U","V","W","X","Y","Z" >>
DigitGlyphs == << "0","1","2","3","4","5","6","7","8","9" >>
OtherGlyphs == << "NUL", "TAB", "NL", "FF", "CR", " ", "!", "DQ", "SQ", "*", "-",
                  ".", "/", ";", "<", "=", ">", "?", "[", "BS", "]", "BT", "{",
                  "}", ":", "#" >>
OtherCodes  == <<  0,     9,     10,   12,   13,   32,  33,  34,   39,   42,  45,
                  46,  47,  59,  60,  61,  62,  63,  91,  92,   93,  96,   123,
                  125, 58,  35 >>

Code(g) ==
    IF \E i \in 1..26 : LowerGlyphs[i] = g
        THEN 96 + (CHOOSE i \in 1..26 : LowerGlyphs[i] = g)
    ELSE IF \E i \in 1..26 : UpperGlyphs[i] = g
        THEN 64 + (CHOOSE i \in 1..26 : UpperGlyphs[i] = g)
    ELSE IF \E i \in 1..10 : DigitGlyphs[i] = g
        THEN 47 + (CHOOSE i \in 1..10 : DigitGlyphs[i] = g)
    ELSE OtherCodes[CHOOSE i \in 1..Len(OtherGlyphs) : OtherGlyphs[i] = g]

Bytes(t) == [i \in 1..Len(t) |-> Code(t[i])]

cNUL    == Code("NUL")
cTab    == Code("TAB")
cLF     == Code("NL")
cFF     == Code("FF")
cCR     == Code("CR")
cSP     == Code(" ")
cBang   == Code("!")
cDQuote == Code("DQ")
cSQuote == Code("SQ")
cStar   == Code("*")
cDash   == Code("-")
cDot    == Code(".")
cSlash  == Code("/")
cLT     == Code("<")
cEq     == Code("=")
cGT     == Code(">")
cQuest  == Code("?")
cLBrack == Code("[")
cBSlash == Code("BS")
cRBrack == Code("]")
cBTick  == Code("BT")
cLBrace == Code("{")
cRBrace == Code("}")

\* 'a' <= c && c <= 'z' || 'A' <= c && c <= 'Z'
IsLetter(c) == (97 <= c /\ c <= 122) \/ (65 <= c /\ c <= 90)

\* unicode.IsSpace(rune(c)) for a byte c
IsSpace(c) == c \in {9, 10, 11, 12, 13, 32, 133, 160}

\* case ' ', '\n', '\r', '\t', '\f'
IsTagSpace(c) == c \in {cSP, cLF, cCR, cTab, cFF}

strScript    == Bytes(<<"s","c","r","i","p","t">>)
strSCRIPT    == Bytes(<<"S","C","R","I","P","T">>)
strStyle     == Bytes(<<"s","t","y","l","e">>)
strTitle     == Bytes(<<"t","i","t","l","e">>)
strTextarea  == Bytes(<<"t","e","x","t","a","r","e","a">>)
strPlaintext == Bytes(<<"p","l","a","i","n","t","e","x","t">>)
strIframe    == Bytes(<<"i","f","r","a","m","e">>)
strNoembed   == Bytes(<<"n","o","e","m","b","e","d">>)
strNoframes  == Bytes(<<"n","o","f","r","a","m","e","s">>)
strXmp       == Bytes(<<"x","m","p">>)
strMarkdown  == Bytes(<<"M","a","r","k","d","o","w","n">>)
strDOCTYPE   == Bytes(<<"D","O","C","T","Y","P","E">>)
strCDATA     == Bytes(<<"[","C","D","A","T","A","[">>)
strDots      == Bytes(<<".",".",".">>)
strAstroRaw  == Bytes(<<"d","a","t","a","-","a","s","t","r","o","-","r","a","w">>)
VoidTags ==
    { Bytes(<<"a","r","e","a">>), Bytes(<<"b","a","s","e">>), Bytes(<<"b","r">>),
      Bytes(<<"c","o","l">>), Bytes(<<"c","o","m","m","a","n","d">>),
      Bytes(<<"e","m","b","e","d">>), Bytes(<<"h","r">>), Bytes(<<"i","m","g">>),
      Bytes(<<"i","n","p","u","t">>), Bytes(<<"k","e","y","g","e","n">>),
      Bytes(<<"l","i","n","k">>), Bytes(<<"m","e","t","a">>),
      Bytes(<<"p","a","r","a","m">>), Bytes(<<"s","o","u","r","c","e">>),
      Bytes(<<"t","r","a","c","k">>), Bytes(<<"w","b","r">>) }

----------------------------------------------------------------------------
(* The buffer.  NewTokenizerFragment fills buf with bytes.Buffer.ReadFrom, *)
(* which leaves spare capacity behind the input, so the slice expressions  *)
(* z.buf[i : i+1] and z.buf[raw.Start : raw.End] of the source do not fail *)
(* when they reach a little past len(buf): they yield the zero bytes of    *)
(* the spare capacity.  An index expression z.buf[i] fails there.          *)

BufLen == Len(buf)

\* z.buf[i : i+1][0]
SliceAt(i) == IF i < BufLen THEN buf[i + 1] ELSE cNUL

\* z.buf[a:b] as a string
Slice(a, b) == [i \in 1..(b - a) |-> SliceAt(a + i - 1)]

NoFault == "none"
\* the faults: "fragment" and "comment" are the two panics of the tokenizer,
\* "index" is an index or a slice out of range, "hang" a loop without end

\* The calls of the methods of the Tokenizer.  z_m(t) is the call z.m() in the
\* state t, its value the state after the call, and a the argument of the
\* call; goto_l(t) is the jump to the label l of Next.  Call finds the method
\* or the label by its name: it is defined after them, as they call each other.
RECURSIVE Call(_, _, _)
z_readByte(t) == Call("readByte", t, <<>>)
z_skipWhiteSpace(t) == Call("skipWhiteSpace", t, <<>>)
z_readRawEndTag(t) == Call("readRawEndTag", t, <<>>)
z_readScript(t) == Call("readScript", t, <<>>)
z_readRawOrRCDATA(t) == Call("readRawOrRCDATA", t, <<>>)
z_readHTMLComment(t) == Call("readHTMLComment", t, <<>>)
z_readUntilCloseAngle(t) == Call("readUntilCloseAngle", t, <<>>)
z_readDoctype(t) == Call("readDoctype", t, <<>>)
z_readCDATA(t) == Call("readCDATA", t, <<>>)
z_readMarkupDeclaration(t) == Call("readMarkupDeclaration", t, <<>>)
z_readUntilChar(t, a) == Call("readUntilChar", t, a)
z_readString(t, a) == Call("readString", t, a)
z_readCommentOrRegExp(t, a) == Call("readCommentOrRegExp", t, a)
z_readUnclosedTag(t) == Call("readUnclosedTag", t, <<>>)
z_readTagName(t) == Call("readTagName", t, <<>>)
z_readTagAttrExpression(t) == Call("readTagAttrExpression", t, <<>>)
z_readTagAttrKey(t) == Call("readTagAttrKey", t, <<>>)
z_readTagAttrVal(t) == Call("readTagAttrVal", t, <<>>)
z_readTag(t, a) == Call("readTag", t, a)
z_readStartTag(t) == Call("readStartTag", t, <<>>)
z_TokenizerNext(t) == Call("TokenizerNext", t, <<>>)
goto_loop(t) == Call("loop", t, <<>>)
goto_frontmatter_loop(t) == Call("frontmatter_loop", t, <<>>)
goto_raw_with_expression_loop(t) == Call("raw_with_expression_loop", t, <<>>)
goto_expression_loop(t) == Call("expression_loop", t, <<>>)

\* z.readByte: part_002 349-357.  The byte read is left in the field c.
readByte(t) ==
    IF t.raw.End >= BufLen
        THEN [t EXCEPT !.err = TRUE, !.c = cNUL]
        ELSE [t EXCEPT !.c = buf[t.raw.End + 1], !.raw.End = @ + 1]

Unread(t) == [t EXCEPT !.raw.End = @ - 1]

RECURSIVE skipWhiteSpaceLoop(_)
skipWhiteSpaceLoop(t) ==
    LET t1 == z_readByte(t) IN
    IF t1.err THEN t1
    ELSE IF ~IsSpace(t1.c) THEN Unread(t1)
    ELSE skipWhiteSpaceLoop(t1)

\* z.skipWhiteSpace: part_002 365-380
skipWhiteSpace(t) == IF t.err THEN t ELSE skipWhiteSpaceLoop(t)

----------------------------------------------------------------------------
(* Raw text: readRawEndTag, readScript, readRawOrRCDATA *)

RawEndTagStop(c) == c \in {cSP, cLF, cCR, cTab, cFF, cSlash, cGT}

RECURSIVE readRawEndTagFrom(_, _)
readRawEndTagFrom(t, i) ==
    LET t1 == z_readByte(t) IN
    IF i < Len(t.rawTag) THEN
        IF t1.err THEN [t1 EXCEPT !.ok = FALSE]
        ELSE IF t1.c # t.rawTag[i + 1] /\ t1.c # (t.rawTag[i + 1] - 32) % 256
            THEN [Unread(t1) EXCEPT !.ok = FALSE]
        ELSE readRawEndTagFrom(t1, i + 1)
    ELSE
        IF t1.err THEN [t1 EXCEPT !.ok = FALSE]
        ELSE IF RawEndTagStop(t1.c)
            THEN [t1 EXCEPT !.raw.End = @ - (3 + Len(t.rawTag)), !.ok = TRUE]
        ELSE [Unread(t1) EXCEPT !.ok = FALSE]

\* readRawEndTag if it took no end tag for one
readRawEndTagNever(t) == [t EXCEPT !.ok = FALSE]

\* z.readRawEndTag: part_002 429-453.  The result is left in the field ok.
readRawEndTag(t) == readRawEndTagFrom(t, 0)

\* The labels of readScript; i counts the bytes of "script" matched in
\* scriptDataDoubleEscapeStart.
RECURSIVE readScriptAt(_, _, _)
readScriptAt(t, label, i) ==
    LET r == z_readByte(t) IN
    CASE label = "scriptData" ->
            IF r.err THEN r
            ELSE IF r.c = cLT THEN readScriptAt(r, "scriptDataLessThanSign", 0)
            ELSE readScriptAt(r, "scriptData", 0)
      [] label = "scriptDataLessThanSign" ->
            IF r.err THEN r
            ELSE IF r.c = cSlash THEN readScriptAt(r, "scriptDataEndTagOpen", 0)
            ELSE IF r.c = cBang THEN readScriptAt(r, "scriptDataEscapeStart", 0)
            ELSE readScriptAt(Unread(r), "scriptData", 0)
      [] label = "scriptDataEndTagOpen" ->
            IF t.err THEN t
            ELSE LET e == z_readRawEndTag(t) IN
                 IF e.ok THEN e ELSE readScriptAt(e, "scriptData", 0)
      [] label = "scriptDataEscapeStart" ->
            IF r.err THEN r
            ELSE IF r.c = cDash THEN readScriptAt(r, "scriptDataEscapeStartDash", 0)
            ELSE readScriptAt(Unread(r), "scriptData", 0)
      [] label = "scriptDataEscapeStartDash" ->
            IF r.err THEN r
            ELSE IF r.c = cDash THEN readScriptAt(r, "scriptDataEscapedDashDash", 0)
            ELSE readScriptAt(Unread(r), "scriptData", 0)
      [] label = "scriptDataEscaped" ->
            IF r.err THEN r
            ELSE IF r.c = cDash THEN readScriptAt(r, "scriptDataEscapedDash", 0)
            ELSE IF r.c = cLT THEN readScriptAt(r, "scriptDataEscapedLessThanSign", 0)
            ELSE readScriptAt(r, "scriptDataEscaped", 0)
      [] label = "scriptDataEscapedDash" ->
            IF r.err THEN r
            ELSE IF r.c = cDash THEN readScriptAt(r, "scriptDataEscapedDashDash", 0)
            ELSE IF r.c = cLT THEN readScriptAt(r, "scriptDataEscapedLessThanSign", 0)
            ELSE readScriptAt(r, "scriptDataEscaped", 0)
      [] label = "scriptDataEscapedDashDash" ->
            IF r.err THEN r
            ELSE IF r.c = cDash THEN readScriptAt(r, "scriptDataEscapedDashDash", 0)
            ELSE IF r.c = cLT THEN readScriptAt(r, "scriptDataEscapedLessThanSign", 0)
            ELSE IF r.c = cGT THEN readScriptAt(r, "scriptData", 0)
            ELSE readScriptAt(r, "scriptDataEscaped", 0)
      [] label = "scriptDataEscapedLessThanSign" ->
            IF r.err THEN r
            ELSE IF r.c = cSlash THEN readScriptAt(r, "scriptDataEscapedEndTagOpen", 0)
            ELSE IF IsLetter(r.c)
                THEN readScriptAt(Unread(r), "scriptDataDoubleEscapeStart", 0)
            ELSE readScriptAt(Unread(r), "scriptData", 0)
      [] label = "scriptDataEscapedEndTagOpen" ->
            IF t.err THEN t
            ELSE LET e == z_readRawEndTag(t) IN
                 IF e.ok \/ e.err THEN e ELSE readScriptAt(e, "scriptDataEscaped", 0)
      [] label = "scriptDataDoubleEscapeStart" ->
            IF r.err THEN r
            ELSE IF i < Len(strScript) THEN
                IF r.c # strScript[i + 1] /\ r.c # strSCRIPT[i + 1]
                    THEN readScriptAt(Unread(r), "scriptDataEscaped", 0)
                ELSE readScriptAt(r, "scriptDataDoubleEscapeStart", i + 1)
            ELSE IF RawEndTagStop(r.c) THEN readScriptAt(r, "scriptDataDoubleEscaped", 0)
            ELSE readScriptAt(Unread(r), "scriptDataEscaped", 0)
      [] label = "scriptDataDoubleEscaped" ->
            IF r.err THEN r
            ELSE IF r.c = cDash THEN readScriptAt(r, "scriptDataDoubleEscapedDash", 0)
            ELSE IF r.c = cLT
                THEN readScriptAt(r, "scriptDataDoubleEscapedLessThanSign", 0)
            ELSE readScriptAt(r, "scriptDataDoubleEscaped", 0)
      [] label = "scriptDataDoubleEscapedDash" ->
            IF r.err THEN r
            ELSE IF r.c = cDash THEN readScriptAt(r, "scriptDataDoubleEscapedDashDash", 0)
            ELSE IF r.c = cLT
                THEN readScriptAt(r, "scriptDataDoubleEscapedLessThanSign", 0)
            ELSE readScriptAt(r, "scriptDataDoubleEscaped", 0)
      [] label = "scriptDataDoubleEscapedDashDash" ->
            IF r.err THEN r
            ELSE IF r.c = cDash THEN readScriptAt(r, "scriptDataDoubleEscapedDashDash", 0)
            ELSE IF r.c = cLT
                THEN readScriptAt(r, "scriptDataDoubleEscapedLessThanSign", 0)
            ELSE IF r.c = cGT THEN readScriptAt(r, "scriptData", 0)
            ELSE readScriptAt(r, "scriptDataDoubleEscaped", 0)
      [] label = "scriptDataDoubleEscapedLessThanSign" ->
            IF r.err THEN r
            ELSE IF r.c = cSlash THEN readScriptAt(r, "scriptDataDoubleEscapeEnd", 0)
            ELSE readScriptAt(Unread(r), "scriptDataDoubleEscaped", 0)
      [] label = "scriptDataDoubleEscapeEnd" ->
            LET e == z_readRawEndTag(t) IN
            IF e.ok
                THEN readScriptAt([e EXCEPT !.raw.End = @ + 9], "scriptDataEscaped", 0)
            ELSE IF e.err THEN e
            ELSE readScriptAt(e, "scriptDataDoubleEscaped", 0)

\* z.readScript: part_002 457-682; the deferred z.data.End = z.raw.End
readScript(t) ==
    LET r == readScriptAt(t, "scriptData", 0) IN [r EXCEPT !.data.End = r.raw.End]

\* z.Text: part_002 1752-1770, its effect on the tokenizer
TextEffect(t) ==
    IF t.tt \in {"Text", "Comment", "Doctype"}
        THEN [t EXCEPT !.data = [Start |-> t.raw.End, End |-> t.raw.End]]
        ELSE t

\* z.TagName and the calls of z.TagAttr that z.Token makes: part_002
\* 1775-1806 and 1820-1829, their effect on the tokenizer.  TagAttr slices
\* buf by the key and value spans, which fails on a span that ends before
\* it starts.
TagEffect(t) ==
    IF t.data.Start < t.data.End
            /\ t.tt \in {"StartTag", "EndTag", "SelfClosingTag"}
        THEN LET t1 == [t EXCEPT !.data = [Start |-> t.raw.End, End |-> t.raw.End]] IN
             IF t.nAttrReturned < Len(t.attr) /\ t.tt \in {"StartTag", "SelfClosingTag"}
                THEN IF \E k \in (t.nAttrReturned + 1)..Len(t.attr) :
                            \/ t.attr[k][1].End < t.attr[k][1].Start
                            \/ t.attr[k][2].End < t.attr[k][2].Start
                        THEN [t1 EXCEPT !.fault = "index"]
                        ELSE [t1 EXCEPT !.nAttrReturned = Len(t.attr)]
                ELSE t1
        ELSE t

\* z.Token: part_002 1810-1839, its effect on the tokenizer
TokenEffect(t) == TagEffect(TextEffect(t))

RECURSIVE readRawLoop(_)
readRawLoop(t) ==
    LET t1 == z_readByte(t) IN
    IF t1.err THEN t1
    ELSE IF t1.c # cLT THEN readRawLoop(t1)
    ELSE LET t2 == z_readByte(t1) IN
         IF t2.err THEN t2
         ELSE IF t2.c # cSlash THEN readRawLoop(Unread(t2))
         ELSE LET t3 == z_readRawEndTag(t2) IN
              IF t3.ok \/ t3.err THEN t3 ELSE readRawLoop(t3)

\* z.readRawOrRCDATA: part_002 384-423
readRawOrRCDATA(t) ==
    LET t0 == TokenEffect(t) IN
    IF t0.fault # NoFault THEN t0
    ELSE IF t0.tt = "SelfClosingTag"
        THEN [t0 EXCEPT !.data.End = t0.raw.End, !.rawTag = <<>>]
    ELSE IF t0.rawTag = strScript
        THEN [z_readScript(t0) EXCEPT !.textIsRaw = TRUE, !.rawTag = <<>>]
    ELSE LET r == readRawLoop(t0) IN
         [r EXCEPT !.data.End = r.raw.End,
                   !.textIsRaw = (r.rawTag # strTextarea /\ r.rawTag # strTitle),
                   !.rawTag = <<>>]

----------------------------------------------------------------------------
(* Comments, doctypes, CDATA sections *)

Min(a, b) == IF a < b THEN a ELSE b

RECURSIVE readHTMLCommentLoop(_, _)
readHTMLCommentLoop(t, dashCount) ==
    LET t1 == z_readByte(t) IN
    IF t1.err THEN [t1 EXCEPT !.data.End = t1.raw.End - Min(dashCount, 2)]
    ELSE IF t1.c = cDash THEN readHTMLCommentLoop(t1, dashCount + 1)
    ELSE IF t1.c = cGT /\ dashCount >= 2 THEN [t1 EXCEPT !.data.End = t1.raw.End - 3]
    ELSE IF t1.c = cBang /\ dashCount >= 2 THEN
        LET t2 == z_readByte(t1) IN
        IF t2.err THEN [t2 EXCEPT !.data.End = t2.raw.End]
        ELSE IF t2.c = cGT THEN [t2 EXCEPT !.data.End = t2.raw.End - 4]
        ELSE readHTMLCommentLoop(t2, 0)
    ELSE readHTMLCommentLoop(t1, 0)

\* z.readHTMLComment: part_002 686-728
readHTMLComment(t) ==
    LET r == readHTMLCommentLoop([t EXCEPT !.data.Start = t.raw.End], 2) IN
    IF r.data.End < r.data.Start THEN [r EXCEPT !.data.End = r.data.Start] ELSE r

RECURSIVE readUntilCloseAngleLoop(_)
readUntilCloseAngleLoop(t) ==
    LET t1 == z_readByte(t) IN
    IF t1.err THEN [t1 EXCEPT !.data.End = t1.raw.End]
    ELSE IF t1.c = cGT THEN [t1 EXCEPT !.data.End = t1.raw.End - 1]
    ELSE readUntilCloseAngleLoop(t1)

\* z.readUntilCloseAngle: part_002 731-744
readUntilCloseAngle(t) == readUntilCloseAngleLoop([t EXCEPT !.data.Start = t.raw.End])

RECURSIVE readDoctypeFrom(_, _)
readDoctypeFrom(t, i) ==
    IF i < Len(strDOCTYPE) THEN
        LET t1 == z_readByte(t) IN
        IF t1.err THEN [t1 EXCEPT !.data.End = t1.raw.End, !.ok = FALSE]
        ELSE IF t1.c # strDOCTYPE[i + 1] /\ t1.c # (strDOCTYPE[i + 1] + 32) % 256
            THEN [t1 EXCEPT !.raw.End = t1.data.Start, !.ok = FALSE]
        ELSE readDoctypeFrom(t1, i + 1)
    ELSE
        LET t1 == z_skipWhiteSpace(t) IN
        IF t1.err
            THEN [t1 EXCEPT !.data = [Start |-> t1.raw.End, End |-> t1.raw.End],
                            !.ok = TRUE]
            ELSE [z_readUntilCloseAngle(t1) EXCEPT !.ok = TRUE]

\* z.readDoctype: part_002 852-873.  The result is left in the field ok.
readDoctype(t) == readDoctypeFrom(t, 0)

RECURSIVE readCDATABody(_, _)
readCDATABody(t, brackets) ==
    LET t1 == z_readByte(t) IN
    IF t1.err THEN [t1 EXCEPT !.data.End = t1.raw.End, !.ok = TRUE]
    ELSE IF t1.c = cRBrack THEN readCDATABody(t1, brackets + 1)
    ELSE IF t1.c = cGT /\ brackets >= 2
        THEN [t1 EXCEPT !.data.End = t1.raw.End - 3, !.ok = TRUE]
    ELSE readCDATABody(t1, 0)

RECURSIVE readCDATAFrom(_, _)
readCDATAFrom(t, i) ==
    IF i < Len(strCDATA) THEN
        LET t1 == z_readByte(t) IN
        IF t1.err THEN [t1 EXCEPT !.data.End = t1.raw.End, !.ok = FALSE]
        ELSE IF t1.c # strCDATA[i + 1]
            THEN [t1 EXCEPT !.raw.End = t1.data.Start, !.ok = FALSE]
        ELSE readCDATAFrom(t1, i + 1)
    ELSE readCDATABody([t EXCEPT !.data.Start = t.raw.End], 0)

\* z.readCDATA: part_002 877-912.  The result is left in the field ok.
readCDATA(t) == readCDATAFrom(t, 0)

\* z.readMarkupDeclaration: part_002 823-848.  The token type it returns is
\* left in the field rt.
readMarkupDeclaration(t) ==
    LET t0 == [t EXCEPT !.data.Start = t.raw.End]
        t1 == z_readByte(t0)
        t2 == z_readByte(t1)
    IN
    IF t1.err THEN [t1 EXCEPT !.data.End = t1.raw.End, !.rt = "Comment"]
    ELSE IF t2.err THEN [t2 EXCEPT !.data.End = t2.raw.End, !.rt = "Comment"]
    ELSE IF t1.c = cDash /\ t2.c = cDash
        THEN [z_readHTMLComment(t2) EXCEPT !.rt = "Comment"]
    ELSE
        LET d == z_readDoctype([t2 EXCEPT !.raw.End = @ - 2]) IN
        IF d.ok THEN [d EXCEPT !.rt = "Doctype"]
        ELSE LET cd == IF d.allowCDATA THEN z_readCDATA(d) ELSE [d EXCEPT !.ok = FALSE] IN
             IF cd.ok THEN [cd EXCEPT !.convertNUL = TRUE, !.rt = "Text"]
             ELSE [z_readUntilCloseAngle(cd) EXCEPT !.rt = "Comment"]

----------------------------------------------------------------------------
(* JavaScript strings, comments and regular expressions *)

\* z.readUntilChar: part_002 764-793.  After a backslash the source skips one
\* byte and then compares the byte at data.Start, not the byte it skipped.
readUntilChar(t, chars) ==
    LET t1 == z_readByte(t) IN
    IF t1.err THEN [t1 EXCEPT !.data.End = t1.raw.End - 1]
    ELSE IF t1.c = cBSlash THEN
        LET t2 == [t1 EXCEPT !.raw.End = @ + 1, !.c = SliceAt(t1.data.Start)] IN
        IF t2.c \in chars
            THEN z_readUntilChar([t2 EXCEPT !.raw.End = @ + 1], chars)
            ELSE z_readUntilChar(t2, chars)
    ELSE IF t1.c \in chars THEN [t1 EXCEPT !.data.End = t1.raw.End]
    ELSE z_readUntilChar(t1, chars)

\* z.readString: part_002 747-761
readString(t, c) ==
    CASE c = cSQuote -> z_readUntilChar(t, {cSQuote, cCR, cLF})
      [] c = cDQuote -> z_readUntilChar(t, {cDQuote, cCR, cLF})
      [] c = cBTick  -> z_readUntilChar(t, {cBTick})
      [] OTHER       -> t

RECURSIVE readBlockComment(_)
\* The loop of part_002 805-812.  It has no exit but the return on "*/": an
\* iteration that leaves the tokenizer as it found it repeats for ever.
readBlockComment(t) ==
    LET t1 == z_readByte(z_readUntilChar(t, {cStar})) IN
    IF t1.c = cSlash THEN [t1 EXCEPT !.data.End = t1.raw.End]
    ELSE IF t1 = t THEN [t1 EXCEPT !.fault = "hang"]
    ELSE readBlockComment(t1)

\* z.readCommentOrRegExp: part_002 796-818
readCommentOrRegExp(t, boundaryChars) ==
    LET t1 == z_readByte(t) IN
    CASE t1.c = cSlash -> z_readUntilChar(t1, {cCR, cLF})
      [] t1.c = cStar  -> readBlockComment(t1)
      [] OTHER         -> z_readUntilChar(Unread(t1), {cSlash, cCR, cLF} \cup boundaryChars)

----------------------------------------------------------------------------
(* Tags and attributes *)

QuotedAttribute          == "Quoted"
EmptyAttribute           == "Empty"
ExpressionAttribute      == "Expression"
SpreadAttribute          == "Spread"
ShorthandAttribute       == "Shorthand"
TemplateLiteralAttribute == "TemplateLiteral"

\* string(z.buf[z.data.Start:z.data.End])
DataBytes(t) == Slice(t.data.Start, t.data.End)

\* z.startTagIn: part_002 916-931.  The comparison is byte by byte.
startTagIn(t, ss) == \E n \in ss : DataBytes(t) = n

RawTags ==
    { strIframe, strNoembed, strNoframes, strPlaintext, strScript, strStyle,
      strTextarea, strTitle, strXmp }

\* the inner loop of hasTag: key and s agree on their common prefix
KeyMatches(key, n) ==
    \A i \in 1..Min(Len(key), Len(n)) : key[i] = n[i]

RECURSIVE hasTagFrom(_, _, _)
\* the outer loop of hasTag, from the last attribute down to the first: "yes",
\* "no", or "index" when the key span of the attribute reached ends before
\* it starts (the slice z.buf[x[0].Start:x[0].End] fails)
hasTagFrom(t, n, k) ==
    IF k = 0 THEN "no"
    ELSE IF t.attr[k][1].End < t.attr[k][1].Start THEN "index"
    ELSE IF KeyMatches(Slice(t.attr[k][1].Start, t.attr[k][1].End), n) THEN "yes"
    ELSE hasTagFrom(t, n, k - 1)

\* z.hasTag: part_002 933-948
hasTag(t, n) == hasTagFrom(t, n, Len(t.attr))

\* bytes.Index(b, sep): the offset of the first sep in b, or -1
Index(b, sep) ==
    LET hits == { i \in 0..(Len(b) - Len(sep)) :
                    \A j \in 1..Len(sep) : b[i + j] = sep[j] }
    IN IF hits = {} THEN -1 ELSE CHOOSE i \in hits : \A j \in hits : i <= j

RECURSIVE readUnclosedTagLoop(_, _)
readUnclosedTagLoop(t, n) ==
    IF n = 0 THEN t
    ELSE LET t1 == z_readByte(t) IN
         IF t1.err THEN [t1 EXCEPT !.data.End = t1.raw.End]
         ELSE IF IsTagSpace(t1.c) THEN [t1 EXCEPT !.data.End = t1.raw.End - 1]
         ELSE readUnclosedTagLoop(t1, n - 1)

\* z.readUnclosedTag: part_002 993-1025
readUnclosedTag(t) ==
    LET all   == Slice(t.data.Start, BufLen)
        fence == IF t.fm = "Open" THEN Index(all, <<cDash, cDash, cDash>>) ELSE -1
        b1    == IF fence # -1 THEN SubSeq(all, 1, fence) ELSE all
        close == Index(b1, <<cGT>>)
    IN
    IF close # -1 THEN t
    ELSE readUnclosedTagLoop([t EXCEPT !.data.Start = t.raw.End - 1], Len(b1))

RECURSIVE readTagNameLoop(_)
readTagNameLoop(t) ==
    LET t1 == z_readByte(t) IN
    IF t1.err THEN [t1 EXCEPT !.data.End = t1.raw.End]
    ELSE IF IsTagSpace(t1.c) THEN [t1 EXCEPT !.data.End = t1.raw.End - 1]
    ELSE IF t1.c \in {cSlash, cGT}
        THEN [t1 EXCEPT !.raw.End = @ - 1, !.data.End = t1.raw.End - 1]
    ELSE readTagNameLoop(t1)

\* z.readTagName: part_002 1064-1082
readTagName(t) == readTagNameLoop([t EXCEPT !.data.Start = t.raw.End - 1])

RECURSIVE readTagAttrExpressionLoop(_)
readTagAttrExpressionLoop(t) ==
    LET t1 == z_readByte(t) IN
    IF t1.err THEN t1
    ELSE IF t1.c \in {cSlash, cDQuote, cSQuote, cBTick} THEN
        LET end == t1.data.End
            s   == IF t1.c = cSlash THEN
                       LET n == z_readByte(t1) IN
                       IF n.c = cSlash THEN [n EXCEPT !.fault = "comment"]
                       ELSE LET r == z_readCommentOrRegExp(n, {cRBrace}) IN
                            IF r.fault # NoFault THEN r
                            ELSE IF r.data.End < 1 THEN [r EXCEPT !.fault = "index"]
                            ELSE IF SliceAt(r.data.End - 1) = cRBrace
                                THEN [r EXCEPT !.data.End = @ - 1]
                            ELSE r
                   ELSE z_readString(t1, t1.c)
        IN IF s.fault # NoFault THEN s
           ELSE readTagAttrExpressionLoop(
                    [s EXCEPT !.raw.End = s.data.End, !.data.End = end])
    ELSE IF t1.c = cLBrace
        THEN readTagAttrExpressionLoop([t1 EXCEPT !.attrExpressionStack = @ + 1])
    ELSE IF t1.c = cRBrace THEN
        IF t1.attrExpressionStack - 1 = 0
            THEN [t1 EXCEPT !.attrExpressionStack = 0]
            ELSE readTagAttrExpressionLoop([t1 EXCEPT !.attrExpressionStack = @ - 1])
    ELSE readTagAttrExpressionLoop(t1)

\* z.readTagAttrExpression: part_002 1221-1260
readTagAttrExpression(t) == IF t.err THEN t ELSE readTagAttrExpressionLoop(t)

\* strings.TrimSpace on an ASCII string
TrimSet == {9, 10, 11, 12, 13, 32}
RECURSIVE TrimLeft(_)
TrimLeft(b) == IF b # <<>> /\ Head(b) \in TrimSet THEN TrimLeft(Tail(b)) ELSE b
RECURSIVE TrimRight(_)
TrimRight(b) ==
    IF b # <<>> /\ b[Len(b)] \in TrimSet THEN TrimRight(SubSeq(b, 1, Len(b) - 1)) ELSE b
TrimSpace(b) == TrimRight(TrimLeft(b))

IsBraceAttr(t) == t.pendingAttrType \in {SpreadAttribute, ShorthandAttribute}

\* the test for a spread attribute if it never found the three dots
SpreadCheckNever(t) == t

\* part_002 1101-1107: the test for a spread attribute after "{".  The slice
\* [0:3] of the trimmed rest of the buffer fails when fewer than three bytes
\* are left of it.
SpreadCheck(t) ==
    LET pendingAttr == Slice(t.pendingAttr[1].Start, BufLen)
        trimmed     == TrimSpace(pendingAttr)
    IN
    IF Len(pendingAttr) > 3 THEN
        IF Len(trimmed) < 3 THEN [t EXCEPT !.fault = "index"]
        ELSE IF SubSeq(trimmed, 1, 3) = strDots
            THEN [t EXCEPT !.pendingAttr[1].Start = @ + Index(pendingAttr, strDots) + 3,
                           !.pendingAttrType = SpreadAttribute]
        ELSE t
    ELSE t

RECURSIVE readTagAttrKeyLoop(_)
readTagAttrKeyLoop(t) ==
    LET t1 == z_readByte(t) IN
    IF t1.err THEN [t1 EXCEPT !.pendingAttr[1].End = t1.raw.End]
    ELSE IF t1.c = cLBrace THEN
        LET e == z_readTagAttrExpression(
                     [t1 EXCEPT !.pendingAttr[1].Start = t1.raw.End,
                                !.pendingAttrType = ShorthandAttribute,
                                !.attrExpressionStack = 1])
            k == IF e.fault # NoFault THEN e ELSE SpreadCheck(e)
        IN IF k.fault # NoFault THEN k ELSE readTagAttrKeyLoop(k)
    ELSE IF IsTagSpace(t1.c) \/ t1.c = cSlash THEN
        [t1 EXCEPT !.pendingAttr[1].End =
                        IF IsBraceAttr(t1) THEN t1.raw.End - 2 ELSE t1.raw.End - 1]
    ELSE IF t1.c \in {cEq, cGT} THEN
        [t1 EXCEPT !.raw.End = @ - 1,
                   !.pendingAttr[1].End =
                        IF IsBraceAttr(t1) THEN t1.raw.End - 2 ELSE t1.raw.End - 1]
    ELSE readTagAttrKeyLoop(t1)

\* z.readTagAttrKey: part_002 1086-1126.  pendingAttr[1] is the key span
\* (pendingAttr[0] of the source), pendingAttr[2] the value span.
readTagAttrKey(t) ==
    readTagAttrKeyLoop([t EXCEPT !.pendingAttr[1].Start = t.raw.End,
                                 !.pendingAttrType = QuotedAttribute])

RECURSIVE readQuotedVal(_, _)
readQuotedVal(t, quote) ==
    LET t1 == z_readByte(t) IN
    IF t1.err THEN [t1 EXCEPT !.pendingAttr[2].End = t1.raw.End]
    ELSE IF t1.c = quote THEN [t1 EXCEPT !.pendingAttr[2].End = t1.raw.End - 1]
    ELSE readQuotedVal(t1, quote)

RECURSIVE readBareVal(_)
readBareVal(t) ==
    LET t1 == z_readByte(t) IN
    IF t1.err THEN [t1 EXCEPT !.pendingAttr[2].End = t1.raw.End]
    ELSE IF IsTagSpace(t1.c) THEN [t1 EXCEPT !.pendingAttr[2].End = t1.raw.End - 1]
    ELSE IF t1.c = cGT
        THEN [t1 EXCEPT !.raw.End = @ - 1, !.pendingAttr[2].End = t1.raw.End - 1]
    ELSE readBareVal(t1)

\* z.readTagAttrVal: part_002 1129-1219
readTagAttrVal(t) ==
    LET t0 == [t EXCEPT !.pendingAttr[2] = [Start |-> t.raw.End, End |-> t.raw.End]]
        t1 == z_skipWhiteSpace(t0)
        t2 == z_readByte(t1)
        t3 == z_skipWhiteSpace(t2)
        q  == z_readByte(t3)
    IN
    IF t1.err THEN t1
    ELSE IF t2.err THEN t2
    ELSE IF t2.c # cEq THEN
        [t2 EXCEPT !.pendingAttrType =
                        IF @ = QuotedAttribute THEN EmptyAttribute ELSE @,
                   !.raw.End = @ - 1]
    ELSE IF t3.err THEN t3
    ELSE IF q.err THEN q
    ELSE IF q.c = cGT THEN Unread(q)
    ELSE IF q.c \in {cSQuote, cDQuote} THEN
        readQuotedVal([q EXCEPT !.pendingAttr[2].Start = q.raw.End,
                                !.pendingAttrType = QuotedAttribute], q.c)
    ELSE IF q.c = cBTick THEN
        readQuotedVal([q EXCEPT !.pendingAttr[2].Start = q.raw.End,
                                !.pendingAttrType = TemplateLiteralAttribute], q.c)
    ELSE IF q.c = cLBrace THEN
        LET e == z_readTagAttrExpression(
                     [q EXCEPT !.pendingAttr[2].Start = q.raw.End,
                               !.pendingAttrType = ExpressionAttribute,
                               !.attrExpressionStack = 1])
        IN IF e.fault # NoFault THEN e
           ELSE [e EXCEPT !.pendingAttr[2].End = e.raw.End - 1]
    ELSE readBareVal([q EXCEPT !.pendingAttr[2].Start = q.raw.End - 1,
                               !.pendingAttrType = QuotedAttribute])

RECURSIVE readTagLoop(_, _)
readTagLoop(t, saveAttr) ==
    LET t1 == z_readByte(t) IN
    IF t1.err \/ t1.c = cGT THEN t1
    ELSE
        LET k == z_readTagAttrKey(Unread(t1))
            v == IF k.fault # NoFault THEN k ELSE z_readTagAttrVal(k)
            a == IF saveAttr /\ v.pendingAttr[1].Start # v.pendingAttr[1].End
                    THEN [v EXCEPT !.attr = Append(@, v.pendingAttr),
                                   !.attrTypes = Append(@, v.pendingAttrType)]
                    ELSE v
            w == z_skipWhiteSpace(a)
        IN IF v.fault # NoFault THEN v
           ELSE IF w.err THEN w
           ELSE readTagLoop(w, saveAttr)

\* z.readTag: part_002 1031-1059
readTag(t, saveAttr) ==
    LET t0 == [t EXCEPT !.pendingAttrType = QuotedAttribute,
                        !.attr = <<>>, !.attrTypes = <<>>,
                        !.attrExpressionStack = 0, !.nAttrReturned = 0]
        t1 == z_skipWhiteSpace(z_readTagName(t0))
    IN IF t1.err THEN t1 ELSE readTagLoop(t1, saveAttr)

\* readStartTag if it did not look at the byte before the ">"
readStartTagVoidOnly(t) ==
    LET t1 == z_readTag(t, TRUE) IN
    IF t1.fault # NoFault THEN t1
    ELSE [t1 EXCEPT !.rt = IF startTagIn(t1, VoidTags) THEN "SelfClosingTag"
                                                       ELSE "StartTag"]

\* z.readStartTag: part_002 952-988.  The token type it returns is left in
\* the field rt.  The switch on the first byte of the name selects the raw
\* element names that begin with that byte.
readStartTag(t) ==
    LET t1 == z_readTag(t, TRUE) IN
    IF t1.fault # NoFault THEN t1
    ELSE IF t1.data.Start >= BufLen THEN [t1 EXCEPT !.fault = "index"]
    ELSE
        LET named == startTagIn(t1, RawTags)
            found == IF named THEN "yes" ELSE hasTag(t1, strAstroRaw)
            t2    == IF found = "yes" THEN [t1 EXCEPT !.rawTag = DataBytes(t1)] ELSE t1
        IN
        IF found = "index" THEN [t1 EXCEPT !.fault = "index"]
        ELSE
        IF startTagIn(t2, VoidTags) THEN [t2 EXCEPT !.rt = "SelfClosingTag"]
        ELSE IF ~t2.err /\ (t2.raw.End - 2 < 0 \/ t2.raw.End - 2 >= BufLen)
            THEN [t2 EXCEPT !.fault = "index"]
        ELSE IF ~t2.err /\ buf[t2.raw.End - 2 + 1] = cSlash
            THEN [t2 EXCEPT !.rt = "SelfClosingTag"]
        ELSE [t2 EXCEPT !.rt = "StartTag"]

----------------------------------------------------------------------------
(* Next *)

\* z.isAtExpressionBoundary: part_002 1268-1279
isAtExpressionBoundary(t) ==
    /\ Len(t.expressionStack) # 0
    /\ t.prevTokenType \notin {"StartTag", "EndTag", "SelfClosingTag", "EndExpression"}

IsQuote(c) == c \in {cSQuote, cDQuote, cBTick}
IsBrace(c) == c \in {cLBrace, cRBrace}

\* return z.tt after z.tt = tt and z.data.End = e
Return(t, tt, e) == [t EXCEPT !.tt = tt, !.data.End = e]

\* part_002 1347-1352 and its copies: the text before a token that is not
\* text is returned first; x is where that token starts
FlushText(t, x) == [t EXCEPT !.raw.End = x, !.data.End = x, !.tt = "Text"]

\* part_002 1436-1440 and 1457-1461: the markdown state after a tag
MarkdownAfterStart(t) ==
    IF DataBytes(t) = strMarkdown THEN [t EXCEPT !.m = "Open"]
    ELSE IF t.m = "Open" THEN [t EXCEPT !.m = "InnerTag"]
    ELSE t
MarkdownAfterEnd(t) ==
    IF DataBytes(t) = strMarkdown THEN [t EXCEPT !.m = "Closed"]
    ELSE IF t.m = "InnerTag" THEN [t EXCEPT !.m = "Open"]
    ELSE t

\* part_002 1432-1434 and 1444-1446
CloseFrontmatter(t) == IF t.fm = "Initial" THEN [t EXCEPT !.fm = "Closed"] ELSE t

\* the test of part_002 1400 if it never found the shorthand
FragmentNeverFound(t) == FALSE

\* part_002 1398-1400: raw := z.Raw(); len(raw) > 1 && bytes.HasPrefix(raw, "<")
FragmentWithAttributes(t) ==
    t.raw.End - t.raw.Start > 1 /\ SliceAt(t.raw.Start) = cLT

\* LoopExit if it cleared z.err when it returns the ErrorToken
LoopExitClearingErr(t) ==
    IF t.raw.Start < t.raw.End
        THEN [t EXCEPT !.openBraceIsExpressionStart = FALSE,
                       !.data.End = t.raw.End, !.tt = "Text"]
        ELSE [t EXCEPT !.tt = "Error", !.err = FALSE]

\* part_002 1484-1492: after the loop
LoopExit(t) ==
    IF t.raw.Start < t.raw.End
        THEN [t EXCEPT !.openBraceIsExpressionStart = FALSE,
                       !.data.End = t.raw.End, !.tt = "Text"]
        ELSE [t EXCEPT !.tt = "Error"]

\* part_002 1693-1699: after the expression loop
ExpressionExit(t) ==
    IF t.raw.Start < t.raw.End
        THEN [t EXCEPT !.data.End = t.raw.End, !.tt = "Text"]
        ELSE [t EXCEPT !.tt = "Error"]

\* part_002 1429-1441: case StartTagToken
StartTagCase(t) ==
    LET r == z_readStartTag(CloseFrontmatter(t)) IN
    IF r.fault # NoFault THEN r
    ELSE MarkdownAfterStart([r EXCEPT !.tt = r.rt])

\* part_002 1442-1471: case EndTagToken.  A result with tt = "Break" stands
\* for the break out of the loop.
EndTagCase(t) ==
    LET t1 == z_readByte(CloseFrontmatter(t)) IN
    IF t1.err THEN [t1 EXCEPT !.rt = "Break"]
    ELSE IF t1.c = cGT THEN [t1 EXCEPT !.tt = "EndTag", !.rt = "Return"]
    ELSE IF IsLetter(t1.c) THEN
        LET r == z_readTag(t1, FALSE)
            k == MarkdownAfterEnd(r)
        IN IF r.fault # NoFault THEN r
           ELSE [k EXCEPT !.tt = IF k.err THEN "Error" ELSE "EndTag", !.rt = "Return"]
    ELSE [Unread(t1) EXCEPT !.tt = "Comment", !.rt = "Return"]

\* part_002 1472-1480: case CommentToken; c is the byte after "<"
CommentCase(t, c) ==
    IF c = cBang
        THEN LET r == z_readMarkupDeclaration(t) IN [r EXCEPT !.tt = r.rt]
        ELSE [z_readUntilCloseAngle(Unread(t)) EXCEPT !.tt = "Comment"]

\* part_002 1326-1492: the loop of Next, one iteration
Loop(t) ==
    LET t1 == z_readByte(t)
        c  == t1.c
        x1 == t1.raw.End - 1
        t2 == z_readByte(t1)
        c2 == t2.c
        x2 == t2.raw.End - 2
        t3 == [t2 EXCEPT !.openBraceIsExpressionStart = TRUE]
        u  == z_readUnclosedTag(t3)
    IN
    IF t1.err THEN LoopExit(t1)
    ELSE IF t1.m = "Open" /\ IsQuote(c) THEN
        LET r == z_readString(t1, c) IN Return(r, "Text", r.raw.End)
    ELSE IF IsBrace(c) THEN
        IF t1.raw.Start < x1 THEN FlushText(t1, x1) ELSE goto_expression_loop(Unread(t1))
    ELSE IF c = cDash /\ t1.fm # "Closed" THEN goto_frontmatter_loop(Unread(t1))
    ELSE IF c # cLT THEN goto_loop(t1)
    ELSE IF t1.fm = "Open" THEN goto_frontmatter_loop(Unread(t1))
    ELSE IF t2.err THEN LoopExit(t2)
    ELSE IF c2 = cGT THEN
        IF t2.raw.Start < x2 THEN FlushText(t2, x2) ELSE [t2 EXCEPT !.tt = "StartTag"]
    ELSE IF ~(IsLetter(c2) \/ c2 \in {cSlash, cBang, cQuest}) THEN
        IF FragmentWithAttributes(t3)
            THEN [t3 EXCEPT !.fault = "fragment"]
            ELSE goto_loop(Unread(t3))
    ELSE IF t3.raw.Start < x2 THEN FlushText(t3, x2)
    ELSE IF u.err THEN LoopExit(u)
    ELSE IF IsLetter(c2) THEN StartTagCase(u)
    ELSE IF c2 = cSlash THEN
        LET e == EndTagCase(u) IN
        IF e.fault # NoFault THEN e
        ELSE IF e.rt = "Break" THEN LoopExit(e)
        ELSE e
    ELSE CommentCase(u, c2)

\* part_002 1570-1571: after the frontmatter loop, control falls into the
\* raw-with-expression loop
FrontmatterExit(t) == goto_raw_with_expression_loop([t EXCEPT !.data.End = t.raw.End])

\* the same with the frontmatter left open
CloseFenceStayOpen(t) ==
    [t EXCEPT !.dashCount = 0, !.data.End = t.raw.End,
              !.tt = "FrontmatterFence", !.openBraceIsExpressionStart = TRUE]

\* part_002 1524-1529: the fence that closes the frontmatter
CloseFence(t) ==
    [t EXCEPT !.fm = "Closed", !.dashCount = 0, !.data.End = t.raw.End,
              !.tt = "FrontmatterFence", !.openBraceIsExpressionStart = TRUE]

\* part_002 1494-1569: the frontmatter loop, one iteration
FrontmatterLoop(t) ==
    LET t1 == z_readByte(t)
        c  == t1.c
        t2 == IF c = cDash THEN [t1 EXCEPT !.dashCount = @ + 1] ELSE t1
        s  == SliceAt(t2.raw.Start)
    IN
    IF t.fm = "Closed" THEN goto_loop(t)
    ELSE IF t1.err THEN FrontmatterExit(t1)
    ELSE IF t2.dashCount = 3 /\ t2.fm = "Initial" THEN
        [t2 EXCEPT !.fm = "Open", !.dashCount = 0, !.data.End = t2.raw.End,
                   !.tt = "FrontmatterFence", !.openBraceIsExpressionStart = FALSE]
    ELSE IF t2.dashCount = 3 /\ t2.fm = "Open" THEN
        IF t2.raw.Start < t2.raw.End - 3
            THEN [t2 EXCEPT !.data.End = t2.raw.End - 3,
                            !.openBraceIsExpressionStart = FALSE, !.tt = "Text"]
            ELSE CloseFence(t2)
    ELSE IF c = cDash THEN goto_frontmatter_loop(t2)
    ELSE IF c = cSlash THEN
        LET r == z_readCommentOrRegExp(t2, {}) IN
        IF r.fault # NoFault THEN r ELSE Return(r, "Text", r.raw.End)
    ELSE IF s \in {cLT, cLBrace, cRBrace} \/ c \in {cLT, cLBrace, cRBrace} THEN
        LET t4 == [t2 EXCEPT !.dashCount = 0] IN
        IF t4.fm = "Open" /\ (s = cLT \/ c = cLT)
            THEN goto_frontmatter_loop(t4)
            ELSE goto_loop(Unread(t4))
    ELSE IF IsQuote(c) THEN
        LET r == z_readString(t2, c) IN Return(r, "Text", r.raw.End)
    ELSE goto_frontmatter_loop([t2 EXCEPT !.dashCount = 0])

\* part_002 1612-1616: after the raw-with-expression loop, control falls
\* into the expression loop
RawWithExpressionExit(t) ==
    goto_expression_loop([t EXCEPT !.data.End = t.raw.End,
                             !.textIsRaw = (t.rawTag # strTextarea /\ t.rawTag # strTitle),
                             !.rawTag = <<>>])

\* part_002 1572-1611: the raw-with-expression loop, one iteration
RawWithExpressionLoop(t) ==
    LET t1 == z_readByte(t)
        c  == t1.c
        x1 == t1.raw.End - 1
        t2 == z_readByte(t1)
        e  == z_readRawEndTag(t2)
    IN
    IF t1.err THEN RawWithExpressionExit(t1)
    ELSE IF IsQuote(c) THEN
        LET r == z_readString(t1, c) IN Return(r, "Text", r.raw.End)
    ELSE IF IsBrace(c) THEN
        IF t1.raw.Start < x1 THEN FlushText(t1, x1) ELSE goto_expression_loop(Unread(t1))
    ELSE IF c # cLT THEN goto_raw_with_expression_loop(t1)
    ELSE IF t2.err THEN RawWithExpressionExit(t2)
    ELSE IF t2.c # cSlash THEN goto_raw_with_expression_loop(Unread(t2))
    ELSE IF e.ok \/ e.err THEN RawWithExpressionExit(e)
    ELSE goto_raw_with_expression_loop(e)

\* the same with the counter left on the stack
PopExpressionKeep(t) ==
    [t EXCEPT !.openBraceIsExpressionStart = TRUE,
              !.data.End = t.raw.End,
              !.tt = "EndExpression"]

\* part_002 1684-1689: the counter of the innermost expression has reached
\* -1; it is taken off the stack and the "}" is the EndExpression token
PopExpression(t) ==
    [t EXCEPT !.openBraceIsExpressionStart = TRUE,
              !.expressionStack = SubSeq(@, 1, Len(@) - 1),
              !.data.End = t.raw.End,
              !.tt = "EndExpression"]

\* part_002 1617-1699: the expression loop, one iteration
ExpressionLoop(t) ==
    LET t1  == z_readByte(t)
        c   == t1.c
        x1  == t1.raw.End - 1
        n   == Len(t1.expressionStack)
    IN
    IF t1.err THEN ExpressionExit(t1)
    ELSE IF c = cSlash THEN
        LET r == z_readCommentOrRegExp(t1, {}) IN
        IF r.fault # NoFault THEN r ELSE Return(r, "Text", r.raw.End)
    ELSE IF IsQuote(c) THEN
        LET r == z_readString(t1, c) IN Return(r, "Text", r.raw.End)
    ELSE IF c = cLT THEN
        LET b == [t1 EXCEPT !.raw.End = x1, !.data.End = x1] IN
        IF b.rawTag # <<>> THEN goto_raw_with_expression_loop(b) ELSE goto_loop(b)
    ELSE IF ~IsBrace(c) THEN goto_expression_loop(t1)
    ELSE IF t1.raw.Start < x1 THEN FlushText(t1, x1)
    ELSE IF c = cLBrace THEN
        IF t1.openBraceIsExpressionStart
            THEN [t1 EXCEPT !.openBraceIsExpressionStart = FALSE,
                            !.expressionStack = Append(@, 0),
                            !.data.End = t1.raw.End - 1,
                            !.tt = "StartExpression"]
            ELSE LET t2 == IF n > 0 THEN [t1 EXCEPT !.expressionStack[n] = @ + 1] ELSE t1
                 IN Return(t2, "Text", t2.raw.End)
    ELSE
        IF n = 0 THEN Return(t1, "Text", t1.raw.End)
        ELSE IF t1.expressionStack[n] - 1 = -1
            THEN PopExpression(t1)
            ELSE goto_expression_loop([t1 EXCEPT !.expressionStack[n] = @ - 1])

RECURSIVE readToEOF(_)
\* part_002 1301-1303: for z.err == nil { z.readByte() }
readToEOF(t) == IF t.err THEN t ELSE readToEOF(z_readByte(t))

\* part_002 1317-1325: the dispatch after the raw text
NextDispatch(t) ==
    LET t1 == [t EXCEPT !.textIsRaw = FALSE, !.convertNUL = FALSE] IN
    IF t1.fm # "Closed" THEN goto_frontmatter_loop(t1)
    ELSE IF isAtExpressionBoundary(t1) THEN goto_expression_loop(t1)
    ELSE goto_loop(t1)

\* z.Next: part_002 1282-1700
TokenizerNext(t) ==
    LET t0 == [t EXCEPT !.raw.Start = t.raw.End,
                        !.data = [Start |-> t.raw.End, End |-> t.raw.End],
                        !.prevTokenType = t.tt]
        tk == IF t0.fm = "Open" THEN TokenEffect(t0) ELSE t0
        t1 == IF t0.fm = "Open" /\ tk.tt \notin {"StartTag", "EndTag"}
                 THEN [tk EXCEPT !.openBraceIsExpressionStart = FALSE]
                 ELSE tk
        rw == IF t1.rawTag = strPlaintext
                 THEN LET p == readToEOF(t1) IN
                      [p EXCEPT !.data.End = p.raw.End, !.textIsRaw = TRUE]
                 ELSE z_readRawOrRCDATA(t1)
    IN
    IF tk.fault # NoFault THEN tk
    ELSE IF t1.rawTag # <<>> THEN
        IF t1.rawTag \in {strTitle, strTextarea} THEN goto_raw_with_expression_loop(t1)
        ELSE IF rw.fault # NoFault THEN rw
        ELSE IF rw.data.End > rw.data.Start
            THEN [rw EXCEPT !.tt = "Text", !.convertNUL = TRUE]
        ELSE NextDispatch(rw)
    ELSE NextDispatch(t1)

\* the method or the label of the name f, run in the state t with the argument a
Call(f, t, a) ==
    CASE f = "readByte" -> readByte(t)
      [] f = "skipWhiteSpace" -> skipWhiteSpace(t)
      [] f = "readRawEndTag" -> readRawEndTag(t)
      [] f = "readScript" -> readScript(t)
      [] f = "readRawOrRCDATA" -> readRawOrRCDATA(t)
      [] f = "readHTMLComment" -> readHTMLComment(t)
      [] f = "readUntilCloseAngle" -> readUntilCloseAngle(t)
      [] f = "readDoctype" -> readDoctype(t)
      [] f = "readCDATA" -> readCDATA(t)
      [] f = "readMarkupDeclaration" -> readMarkupDeclaration(t)
      [] f = "readUntilChar" -> readUntilChar(t, a)
      [] f = "readString" -> readString(t, a)
      [] f = "readCommentOrRegExp" -> readCommentOrRegExp(t, a)
      [] f = "readUnclosedTag" -> readUnclosedTag(t)
      [] f = "readTagName" -> readTagName(t)
      [] f = "readTagAttrExpression" -> readTagAttrExpression(t)
      [] f = "readTagAttrKey" -> readTagAttrKey(t)
      [] f = "readTagAttrVal" -> readTagAttrVal(t)
      [] f = "readTag" -> readTag(t, a)
      [] f = "readStartTag" -> readStartTag(t)
      [] f = "TokenizerNext" -> TokenizerNext(t)
      [] f = "loop" -> Loop(t)
      [] f = "frontmatter_loop" -> FrontmatterLoop(t)
      [] f = "raw_with_expression_loop" -> RawWithExpressionLoop(t)
      [] f = "expression_loop" -> ExpressionLoop(t)

----------------------------------------------------------------------------
(* The tokenizer as a state machine *)

\* The longest input of the exhaustive part of Inputs
MaxLen == 4
\* How many times Next is called again after it has returned ErrorToken
MaxErrCalls == 2

\* the bytes of the exhaustive part of Inputs
Alphabet ==
    { cLT, cGT, cSlash, cLBrace, cRBrace, cDash, cDQuote, cBSlash,
      Code("a"), cLF }

\* Documents longer than MaxLen
docFrontmatter ==
    { Bytes(<<"-","-","-","NL","a","NL","-","-","-">>),
      Bytes(<<"-","-","-","NL","a","NL","-","-","-","NL">>),
      Bytes(<<"-","-","-","NL","a","NL","-","-","-","NL","<","a",">">>),
      Bytes(<<"-","-","-","NL","NL","-","-","-","NL","b">>),
      Bytes(<<"-","-","-","NL","a","<","b","{","NL","-","-","-","NL","b">>),
      Bytes(<<"-","-","-","NL","DQ","a","DQ",";","NL","-","-","-","NL","{","a","}">>),
      Bytes(<<"{","-","-","-","}">>),
      Bytes(<<"{","-","-","-","NL","}","NL","-","-","-","NL">>),
      Bytes(<<"<",">","-","-","-">>),
      Bytes(<<"<","/",">","-","-","-">>),
      Bytes(<<"<","a",">","-","-","-">>),
      Bytes(<<"<","a","/",">","-","-","-">>),
      Bytes(<<"<","/","a",">","-","-","-","NL","-","-","-">>),
      Bytes(<<"a","-","-","-","NL","-","-","-","NL">>) }

docExpression ==
    { Bytes(<<"{","DQ","BS","a","DQ","}">>),
      Bytes(<<"{","DQ","a","DQ","}">>),
      Bytes(<<"{","a","/","b","}">>),
      Bytes(<<"{","/","*","}","*","/","}">>),
      Bytes(<<"<","a",">","{","a","}","<","/","a",">">>),
      Bytes(<<"<","a",">","{","{","a","}","}","<","/","a",">">>),
      Bytes(<<"<","a",">","{","<","b",">","{","c","}","<","/","b",">","}","<","/","a",">">>),
      Bytes(<<"/","*">>),
      Bytes(<<"/","*"," ","a"," ","*","/">>),
      Bytes(<<"{","/","*">>) }

docTag ==
    { Bytes(<<"<","a"," ","{","}",">","NL","NL">>),
      Bytes(<<"<","a"," ","{","b","}",">">>),
      Bytes(<<"<","a"," ","{",".",".",".","b","}",">">>),
      Bytes(<<"<","a"," ","b","=","DQ","c","DQ",">">>),
      Bytes(<<"<","a"," ","b","=","{","c","}","/",">">>),
      Bytes(<<"<","b","r",">","<","b","r","/",">">>),
      Bytes(<<"<","/","a"," ","=","DQ",">">>),
      Bytes(<<"<","!","-","-","a","-","-",">","<","a",">">>),
      Bytes(<<"<","a"," ","b","=","{","/","/","}",">">>),
      Bytes(<<"<"," ","a",">">>) }

docScript ==
    Bytes(<<"<","s","c","r","i","p","t",">","v","a","r"," ","x"," ","="," ","DQ",
            "<","/","s","c","r","i","p","t",">","DQ",";",
            "<","/","s","c","r","i","p","t",">">>)

docRaw ==
    { docScript,
      Bytes(<<"<","s","c","r","i","p","t",">","a","<","/","s","c","r","i","p","t",">">>),
      Bytes(<<"<","s","c","r","i","p","t",">","a">>),
      Bytes(<<"<","s","t","y","l","e",">","a","<","/","s","t","y","l","e",">","b">>),
      Bytes(<<"<","t","i","t","l","e",">","a","{","b","}","<","/","t","i","t","l","e",">">>) }

\* start tags with the names of void elements and with a slash before the end
docVoid ==
    { Bytes(<<"<","b","r",">">>),
      Bytes(<<"<","h","r"," ","a",">">>),
      Bytes(<<"<","i","m","g","/",">">>),
      Bytes(<<"<","B","R",">">>),
      Bytes(<<"<","w","b","r",">","a">>),
      Bytes(<<"<","a"," ","b","=","/",">">>),
      Bytes(<<"<","a"," ","/"," ",">">>),
      Bytes(<<"<","a"," ","b","=","DQ","/",">">>),
      Bytes(<<"<","a"," ","b","=","DQ","c","DQ","/",">">>) }

\* the shorthand of the fragment with attributes, in the markup, in an
\* expression, in a raw text and in the frontmatter
docFragment ==
    Bytes(<<"<"," ","c","l","a","s","s","=","DQ","x","DQ",">","h","i","<","/",">">>)
docShorthand ==
    { docFragment,
      Bytes(<<"<","a",">","<"," ","b",">">>),
      Bytes(<<"<","a",">","{","<"," ","b",">","}">>),
      Bytes(<<"{","DQ","a","DQ","<"," ","b",">","}">>),
      Bytes(<<"<","t","i","t","l","e",">","<"," ","a",">">>),
      Bytes(<<"-","-","-","<"," ","a",">">>) }

\* comments in the expression of an attribute
docAttrComment ==
    { Bytes(<<"<","a"," ","b","=","{","/","*","c","*","/","}",">">>),
      Bytes(<<"<","a"," ","{","/","*","c","*","/","}",">">>),
      Bytes(<<"<","a"," ","b","=","{","/","/","c","NL","}",">">>),
      Bytes(<<"<","a"," ","{","/","/","c","NL","}",">">>) }

\* raw elements in either letter case; an attribute key d makes hasTag take
\* the element for a raw one
docRawCase ==
    { Bytes(<<"<","S","T","Y","L","E",">","a","<","b",">","<","/","S","T","Y","L","E",">">>),
      Bytes(<<"<","s","t","y","l","e",">","a","<","b",">","<","/","S","T","Y","L","E",">","c">>),
      Bytes(<<"<","x","m","p",">","<","/","x","m","<","/","x","m","p","/",">">>),
      Bytes(<<"<","a"," ","d",">","x","<","b",">","<","/","A",">","y">>),
      Bytes(<<"<","A"," ","d",">","x","<","/","a",">","y">>) }

\* How many attributes the start tags made of AttrForms have
MaxAttrs == 2

\* The forms of an attribute: the text, where in it the key is and how long,
\* where the value is and how long, and the type.  The form "{}" has no key.
AttrForms ==
    << [ text |-> Bytes(<<"k","=","DQ","v","DQ">>), key |-> <<0, 1>>, val |-> <<3, 1>>,
         type |-> QuotedAttribute ],
       [ text |-> Bytes(<<"k","=","SQ","v","w","SQ">>), key |-> <<0, 1>>, val |-> <<3, 2>>,
         type |-> QuotedAttribute ],
       [ text |-> Bytes(<<"k","j","=","v">>), key |-> <<0, 2>>, val |-> <<3, 1>>,
         type |-> QuotedAttribute ],
       [ text |-> Bytes(<<"k">>), key |-> <<0, 1>>, val |-> <<1, 0>>,
         type |-> EmptyAttribute ],
       [ text |-> Bytes(<<"k","=","{","e","}">>), key |-> <<0, 1>>, val |-> <<3, 1>>,
         type |-> ExpressionAttribute ],
       [ text |-> Bytes(<<"k","=","{","{","b","}","c","}">>), key |-> <<0, 1>>,
         val |-> <<3, 4>>, type |-> ExpressionAttribute ],
       [ text |-> Bytes(<<"k","=","{","DQ","}","DQ","}">>), key |-> <<0, 1>>,
         val |-> <<3, 3>>, type |-> ExpressionAttribute ],
       [ text |-> Bytes(<<"k","=","BT","t","BT">>), key |-> <<0, 1>>, val |-> <<3, 1>>,
         type |-> TemplateLiteralAttribute ],
       [ text |-> Bytes(<<"{","n","}">>), key |-> <<1, 1>>, val |-> <<3, 0>>,
         type |-> ShorthandAttribute ],
       [ text |-> Bytes(<<"{",".",".",".","e","}">>), key |-> <<4, 1>>, val |-> <<6, 0>>,
         type |-> SpreadAttribute ],
       [ text |-> Bytes(<<"{","}">>), key |-> <<1, 0>>, val |-> <<2, 0>>,
         type |-> ShorthandAttribute ] >>

\* the choices of at most MaxAttrs forms, one after the other
FormSeqs == UNION { [1..n -> 1..Len(AttrForms)] : n \in 1..MaxAttrs }

RECURSIVE AttrText(_, _)
\* the forms fs from the i-th on, a space before each
AttrText(fs, i) ==
    IF i > Len(fs) THEN <<>>
    ELSE <<cSP>> \o AttrForms[fs[i]].text \o AttrText(fs, i + 1)

\* the start tag "<a", the forms fs, ">"
TagOf(fs) == <<cLT, Code("a")>> \o AttrText(fs, 1) \o <<cGT>>

\* start tags with attributes of every form
docAttrs == { TagOf(fs) : fs \in FormSeqs }

\* attributes in braces with a byte, another attribute or a value after the
\* closing brace
docBraceKey ==
    { Bytes(<<"<","a"," ","{","n","}","x",">">>),
      Bytes(<<"<","a"," ","{","n","}","{","m","}",">">>),
      Bytes(<<"<","a"," ","{",".",".",".","e","}","x"," ","k",">">>),
      Bytes(<<"<","a"," ","{","n","}","=","v",">">>),
      Bytes(<<"<","a"," ","{"," ","n"," ","}","/",">">>) }

\* dashes with a string between them
docDashes ==
    { Bytes(<<"-","DQ","a","DQ","-","-","b">>),
      Bytes(<<"-","-","DQ","DQ","-","b">>),
      Bytes(<<"-","-","-","a","-","DQ","DQ","-","-","b">>) }

\* Raw elements whose start tag is self-closing, and an element after them
docSelfClosingRaw ==
    { Bytes(<<"<","s","c","r","i","p","t","/",">","<","b",">">>),
      Bytes(<<"<","s","t","y","l","e"," ","/",">","<","b",">">>),
      Bytes(<<"<","x","m","p","/",">","<","b",">","c">>),
      Bytes(<<"<","t","i","t","l","e","/",">","<","b",">">>),
      Bytes(<<"<","t","e","x","t","a","r","e","a","/",">","<","b",">">>),
      Bytes(<<"<","p","l","a","i","n","t","e","x","t","/",">","<","b",">">>) }

\* Start tags with an attribute whose key is, begins or begins with
\* "data-astro-raw"
docForceRaw ==
    { Bytes(<<"<","a"," ">>) \o strAstroRaw \o Bytes(<<">","<","b",">","<","/","a",">">>),
      Bytes(<<"<","a"," ">>) \o strAstroRaw \o Bytes(<<"-","x",">","<","b",">">>),
      Bytes(<<"<","a"," ","d","a","t","a",">","<","b",">">>),
      Bytes(<<"<","a"," ","c"," ","d","=","e",">","<","b",">">>) }

\* Void and raw elements whose start tag is not in lower case
docUpperCase ==
    { Bytes(<<"<","I","m","g",">","a">>),
      Bytes(<<"<","S","C","R","I","P","T",">","<","b",">","<","/","S","C","R","I","P","T",">">>),
      Bytes(<<"<","S","t","y","l","e",">","<","b",">","<","/","S","t","y","l","e",">">>),
      Bytes(<<"<","T","E","X","T","A","R","E","A",">","<","b",">","<","/","T","E","X","T","A","R","E","A",">">>) }

\* Expressions that hold one JavaScript string with a backslash in it
docStringEsc ==
    { Bytes(<<"{","DQ","BS","a","DQ","}","b">>),
      Bytes(<<"{","DQ","BS","DQ","DQ","}","b">>),
      Bytes(<<"{","a","DQ","BS","DQ","DQ","}","b">>),
      Bytes(<<"{","a","SQ","BS","BS","SQ","}","<","a",">">>),
      Bytes(<<"{","SQ","BS","BS","SQ","}","<","a",">">>),
      Bytes(<<"{","BT","BS","BT","}","BT","}","-">>) }

\* A frontmatter, a title and the elements after it: the bodies of the
\* frontmatter, the texts of the title, without quotes and braces, and what
\* stands between the parts
FmBodies ==
    { <<>>, <<cLF>>, Bytes(<<"NL","x","=","SQ","y","SQ",";","NL">>) }
TitleTexts ==
    { <<>>, Bytes(<<"U","h","h","h">>), Bytes(<<"a","<","b">>),
      Bytes(<<"a","<","/","b",">">>), Bytes(<<"a","-","NL">>) }
Seps == { <<>>, <<cLF>> }
strDashes == <<cDash, cDash, cDash>>
titleOpen == Bytes(<<"<","t","i","t","l","e",">">>)
titleClose == Bytes(<<"<","/","t","i","t","l","e",">">>)
bodyAfter == Bytes(<<"<","b",">","<","i",">","H","!","<","/","i",">","<","/","b",">">>)
TitleDoc(fm, text, sep) ==
    strDashes \o fm \o strDashes \o sep \o titleOpen \o text \o titleClose
        \o sep \o bodyAfter
docTitleDocs ==
    { TitleDoc(fm, text, sep) : fm \in FmBodies, text \in TitleTexts, sep \in Seps }

\* title and textarea with an expression, a "<", and quotes in their text
docTitle ==
    { Bytes(<<"<","t","i","t","l","e",">","a","<","b","{","c","}","<","/","t","i","t","l","e",">","<","b",">">>),
      Bytes(<<"<","t","i","t","l","e",">","{","DQ","}","DQ","}","<","/","t","i","t","l","e",">">>),
      Bytes(<<"<","t","i","t","l","e",">","a","SQ","<","/","t","i","t","l","e",">","b">>),
      Bytes(<<"<","t","e","x","t","a","r","e","a",">","SQ","a","SQ","<","/","t","e","x","t","a","r","e","a"," ",">">>) }

Samples ==
    docFrontmatter \cup docExpression \cup docTag \cup docRaw \cup docVoid
        \cup docShorthand \cup docAttrComment \cup docRawCase \cup docTitle
        \cup docAttrs \cup docBraceKey \cup docDashes \cup docTitleDocs
        \cup docStringEsc \cup docUpperCase \cup docSelfClosingRaw
        \cup docForceRaw

\* the inputs: every string over Alphabet of at most MaxLen bytes, and the
\* sample documents
Inputs == UNION { [1..n -> Alphabet] : n \in 0..MaxLen } \cup Samples

\* NewTokenizer: part_002 1843-1871, with an empty contextTag.  c, ok and rt
\* hold the results of the methods during a call of Next and nothing between
\* calls; fault is NoFault as long as no call has panicked or hung.
NewTokenizer ==
    [ tt |-> "Error", prevTokenType |-> "Error", fm |-> "Initial", m |-> "Initial",
      err |-> FALSE,
      raw |-> [Start |-> 0, End |-> 0], data |-> [Start |-> 0, End |-> 0],
      pendingAttr |-> << [Start |-> 0, End |-> 0], [Start |-> 0, End |-> 0] >>,
      pendingAttrType |-> QuotedAttribute,
      attr |-> <<>>, attrTypes |-> <<>>, attrExpressionStack |-> 0,
      nAttrReturned |-> 0, dashCount |-> 0,
      expressionStack |-> <<>>, openBraceIsExpressionStart |-> TRUE,
      rawTag |-> <<>>, textIsRaw |-> FALSE, convertNUL |-> FALSE,
      allowCDATA |-> FALSE,
      c |-> cNUL, ok |-> FALSE, rt |-> "", fault |-> NoFault ]

\* the tokenizer after a call: the results of the methods are dropped
Settled(t) == [t EXCEPT !.c = cNUL, !.ok = FALSE, !.rt = ""]

\* what the caller sees of the token Next returned
TokenOf(t) == [tt |-> t.tt, raw |-> t.raw, data |-> t.data, fm |-> t.fm]

TokInit ==
    /\ buf \in Inputs
    /\ z = NewTokenizer
    /\ toks = <<>>
    /\ nErr = 0

\* Next returns a token that is not the ErrorToken
NextToken ==
    /\ z.fault = NoFault
    /\ \E r \in {z_TokenizerNext(z)} :
        /\ r.fault = NoFault
        /\ r.tt # "Error"
        /\ z' = Settled(r)
        /\ toks' = Append(toks, TokenOf(r))
    /\ UNCHANGED <<buf, nErr>>
    /\ UNCHANGED treeVars

\* Next returns the ErrorToken
NextError ==
    /\ z.fault = NoFault
    /\ nErr < MaxErrCalls
    /\ \E r \in {z_TokenizerNext(z)} :
        /\ r.fault = NoFault
        /\ r.tt = "Error"
        /\ z' = Settled(r)
    /\ nErr' = nErr + 1
    /\ UNCHANGED <<buf, toks>>
    /\ UNCHANGED treeVars

\* Next does not return: it panics, or it loops for ever
NextFault ==
    /\ z.fault = NoFault
    /\ \E r \in {z_TokenizerNext(z)} :
        /\ r.fault # NoFault
        /\ z' = Settled(r)
    /\ UNCHANGED <<buf, toks, nErr>>
    /\ UNCHANGED treeVars

\* no tokenizer at work: the state of the tree specification
TokIdle ==
    /\ buf = <<>>
    /\ z = NewTokenizer
    /\ toks = <<>>
    /\ nErr = 0

----------------------------------------------------------------------------
(* The node tree: node.go.  A node is a number, the nil pointer is Nil, and *)
(* tree maps every node to its five links.                                  *)

\* how many nodes there are
NumNodes == 3
Nil == 0
Nodes == 1..NumNodes

\* a Node after &Node{}: node.go 51-71, the links of line 57
NewNode ==
    [ Parent |-> Nil, FirstChild |-> Nil, LastChild |-> Nil,
      PrevSibling |-> Nil, NextSibling |-> Nil ]

\* the test of node.go 79 and 107 if it never found the node attached
AttachedNever(tr, c) == FALSE

\* node.go 79 and 107: the test of InsertBefore and of AppendChild
Attached(tr, c) ==
    tr[c].Parent # Nil \/ tr[c].PrevSibling # Nil \/ tr[c].NextSibling # Nil

\* InsertBefore without line 94, next.PrevSibling = newChild
InsertBeforeNoBackLink(tr, n, newChild, oldChild) ==
    LET prev == IF oldChild # Nil THEN tr[oldChild].PrevSibling ELSE tr[n].LastChild
        next == IF oldChild # Nil THEN oldChild ELSE Nil
        t1 == IF prev # Nil THEN [tr EXCEPT ![prev].NextSibling = newChild]
                            ELSE [tr EXCEPT ![n].FirstChild = newChild]
        t2 == IF next # Nil THEN t1 ELSE [t1 EXCEPT ![n].LastChild = newChild]
        t3 == [t2 EXCEPT ![newChild].Parent = n]
        t4 == [t3 EXCEPT ![newChild].PrevSibling = prev]
    IN [t4 EXCEPT ![newChild].NextSibling = next]

\* InsertBefore if it took every oldChild for nil
InsertBeforeAsLast(tr, n, newChild, oldChild) ==
    LET prev == tr[n].LastChild
        t1 == IF prev # Nil THEN [tr EXCEPT ![prev].NextSibling = newChild]
                            ELSE [tr EXCEPT ![n].FirstChild = newChild]
        t2 == [t1 EXCEPT ![n].LastChild = newChild]
        t3 == [t2 EXCEPT ![newChild].Parent = n]
    IN [t3 EXCEPT ![newChild].PrevSibling = prev]

\* n.InsertBefore(newChild, oldChild) when it does not panic: node.go 82-100.
\* The assignments are made one after the other, as the nodes may coincide.
InsertBefore(tr, n, newChild, oldChild) ==
    LET prev == IF oldChild # Nil THEN tr[oldChild].PrevSibling ELSE tr[n].LastChild
        next == IF oldChild # Nil THEN oldChild ELSE Nil
        t1 == IF prev # Nil THEN [tr EXCEPT ![prev].NextSibling = newChild]
                            ELSE [tr EXCEPT ![n].FirstChild = newChild]
        t2 == IF next # Nil THEN [t1 EXCEPT ![next].PrevSibling = newChild]
                            ELSE [t1 EXCEPT ![n].LastChild = newChild]
        t3 == [t2 EXCEPT ![newChild].Parent = n]
        t4 == [t3 EXCEPT ![newChild].PrevSibling = prev]
    IN [t4 EXCEPT ![newChild].NextSibling = next]

\* AppendChild without line 118: c gets no PrevSibling
AppendChildNoPrevSibling(tr, n, c) ==
    LET last == tr[n].LastChild
        t1 == IF last # Nil THEN [tr EXCEPT ![last].NextSibling = c]
                            ELSE [tr EXCEPT ![n].FirstChild = c]
        t2 == [t1 EXCEPT ![n].LastChild = c]
    IN [t2 EXCEPT ![c].Parent = n]

\* n.AppendChild(c) when it does not panic: node.go 110-118
AppendChild(tr, n, c) ==
    LET last == tr[n].LastChild
        t1 == IF last # Nil THEN [tr EXCEPT ![last].NextSibling = c]
                            ELSE [tr EXCEPT ![n].FirstChild = c]
        t2 == [t1 EXCEPT ![n].LastChild = c]
        t3 == [t2 EXCEPT ![c].Parent = n]
    IN [t3 EXCEPT ![c].PrevSibling = last]

\* RemoveChild without lines 142 and 143: c keeps its PrevSibling and its
\* NextSibling
RemoveChildKeepsSiblings(tr, n, c) ==
    LET t1 == IF tr[n].FirstChild = c
                 THEN [tr EXCEPT ![n].FirstChild = tr[c].NextSibling] ELSE tr
        t2 == IF t1[c].NextSibling # Nil
                 THEN [t1 EXCEPT ![t1[c].NextSibling].PrevSibling = t1[c].PrevSibling]
                 ELSE t1
        t3 == IF t2[n].LastChild = c
                 THEN [t2 EXCEPT ![n].LastChild = t2[c].PrevSibling] ELSE t2
        t4 == IF t3[c].PrevSibling # Nil
                 THEN [t3 EXCEPT ![t3[c].PrevSibling].NextSibling = t3[c].NextSibling]
                 ELSE t3
    IN [t4 EXCEPT ![c].Parent = Nil]

\* n.RemoveChild(c) when it does not panic: node.go 129-143
RemoveChild(tr, n, c) ==
    LET t1 == IF tr[n].FirstChild = c
                 THEN [tr EXCEPT ![n].FirstChild = tr[c].NextSibling] ELSE tr
        t2 == IF t1[c].NextSibling # Nil
                 THEN [t1 EXCEPT ![t1[c].NextSibling].PrevSibling = t1[c].PrevSibling]
                 ELSE t1
        t3 == IF t2[n].LastChild = c
                 THEN [t2 EXCEPT ![n].LastChild = t2[c].PrevSibling] ELSE t2
        t4 == IF t3[c].PrevSibling # Nil
                 THEN [t3 EXCEPT ![t3[c].PrevSibling].NextSibling = t3[c].NextSibling]
                 ELSE t3
        t5 == [t4 EXCEPT ![c].Parent = Nil]
        t6 == [t5 EXCEPT ![c].PrevSibling = Nil]
    IN [t6 EXCEPT ![c].NextSibling = Nil]

\* reparentChildren if it moved the first child of src and no other
reparentChildrenFirstOnly(tr, dst, src, seen) ==
    LET child == tr[src].FirstChild IN
    IF child = Nil \/ tr[child].Parent # src THEN [tree |-> tr, end |-> "return"]
    ELSE [tree |-> AppendChild(RemoveChild(tr, src, child), dst, child),
          end |-> "return"]

RECURSIVE reparentChildrenLoop(_, _, _, _)
\* the loop of node.go 157-164 from the tree tr on.  It ends by the break of
\* line 160, by the panic of RemoveChild or of AppendChild, or not at all:
\* the loop has no state but the tree, so it runs for ever as soon as it meets
\* a tree it has met, and seen are the trees met so far.
reparentChildrenLoop(tr, dst, src, seen) ==
    LET child == tr[src].FirstChild IN
    IF child = Nil THEN [tree |-> tr, end |-> "return"]
    ELSE IF tr \in seen THEN [tree |-> tr, end |-> "hang"]
    ELSE IF tr[child].Parent # src THEN [tree |-> tr, end |-> "panic"]
    ELSE LET t1 == RemoveChild(tr, src, child) IN
         IF Attached(t1, child) THEN [tree |-> t1, end |-> "panic"]
         ELSE reparentChildrenLoop(AppendChild(t1, dst, child), dst, src,
                                   seen \cup {tr})

\* reparentChildren(dst, src): node.go 156-165
reparentChildren(tr, dst, src) == reparentChildrenLoop(tr, dst, src, {})

\* a nil slice, and the slice of the first k elements of the array a
NilSlice == [array |-> Nil, len |-> 0]
SliceOf(a, k) == [array |-> a, len |-> k]

\* the zero Attribute: part_002 127-135, Key and Val of it
ZeroAttribute == [Key |-> "", Val |-> ""]

\* the fields of &Node{} that are not links: node.go 52-70
ZeroNode ==
    [ Fragment |-> FALSE, CustomElement |-> FALSE, Component |-> FALSE,
      Expression |-> FALSE, Type |-> "ErrorNode", DataAtom |-> "",
      Data |-> "", Namespace |-> "", Attr |-> NilSlice, Loc |-> NilSlice ]

\* the arrays behind the slices: every node has one for its Attr and one for
\* its Loc
Arrays == 1..(2 * NumNodes)
AttrArray(x) == 2 * x - 1
LocArray(x) == 2 * x

\* no node allocated.  cloneOf[m] is the node m was cloned from.
NoHeap ==
    [ live |-> {},
      fields |-> [x \in Nodes |-> ZeroNode],
      arrays |-> [a \in Arrays |-> <<>>],
      cloneOf |-> [x \in Nodes |-> Nil] ]

\* the elements of a slice
Elements(h, s) == IF s.array = Nil THEN <<>> ELSE SubSeq(h.arrays[s.array], 1, s.len)
\* n.Attr and n.Loc, element by element
AttrOf(h, x) == Elements(h, h.fields[x].Attr)
LocOf(h, x) == Elements(h, h.fields[x].Loc)

\* make([]Attribute, k): node.go 174
MakeAttr(k) == [i \in 1..k |-> ZeroAttribute]
\* copy(dst, src) of Go: node.go 179
Copy(dst, src) == [i \in 1..Len(dst) |-> IF i <= Len(src) THEN src[i] ELSE dst[i]]

\* clone if it took the Attr of n as it takes the Loc of n, slice for slice
cloneSharingAttr(h, n, m) ==
    [h EXCEPT !.live = @ \cup {m},
              !.fields[m] = [ZeroNode EXCEPT
                                !.Type = h.fields[n].Type,
                                !.DataAtom = h.fields[n].DataAtom,
                                !.Data = h.fields[n].Data,
                                !.Attr = h.fields[n].Attr,
                                !.CustomElement = h.fields[n].CustomElement,
                                !.Component = h.fields[n].Component,
                                !.Loc = h.fields[n].Loc],
              !.cloneOf[m] = n]

\* m := n.clone(), m being the node the call allocates: node.go 169-181
clone(h, n, m) ==
    LET k == h.fields[n].Attr.len IN
    [h EXCEPT !.live = @ \cup {m},
              !.fields[m] = [ZeroNode EXCEPT
                                !.Type = h.fields[n].Type,
                                !.DataAtom = h.fields[n].DataAtom,
                                !.Data = h.fields[n].Data,
                                !.Attr = SliceOf(AttrArray(m), k),
                                !.CustomElement = h.fields[n].CustomElement,
                                !.Component = h.fields[n].Component,
                                !.Loc = h.fields[n].Loc],
              !.arrays[AttrArray(m)] = Copy(MakeAttr(k), AttrOf(h, n)),
              !.cloneOf[m] = n]

\* How long the stacks are at most
MaxStack == 3

\* the insertion modes on an insertionModeStack; NilMode is the nil of Go
InsertionModes == {"initialIM", "inBodyIM"}
NilMode == "nil"

\* The two stacks, the name of the call made last, what it returned, and
\* whether it panicked
StacksOf(ns, ms) ==
    [ nodeStack |-> ns, insertionModeStack |-> ms, call |-> "none",
      ret |-> Nil, panic |-> FALSE ]
NoStacks == StacksOf(<<>>, <<>>)

\* s without its last element: (*s)[:i-1]
Front(s) == SubSeq(s, 1, Len(s) - 1)

\* nodeStack.pop: node.go 187-195
nodeStackPop(s) ==
    IF Len(s.nodeStack) > 0
        THEN [s EXCEPT !.call = "nodeStack.pop",
                       !.ret = s.nodeStack[Len(s.nodeStack)],
                       !.nodeStack = Front(@)]
        ELSE [s EXCEPT !.call = "nodeStack.pop", !.ret = Nil]

\* nodeStack.top: node.go 198-203
nodeStackTop(s) ==
    [s EXCEPT !.call = "nodeStack.top",
              !.ret = IF Len(s.nodeStack) > 0 THEN s.nodeStack[Len(s.nodeStack)]
                                              ELSE Nil]

\* insertionModeStack.pop: node.go 247-252.  (*s)[i-1] with i = 0 is an index
\* out of range.
insertionModeStackPop(s) ==
    IF Len(s.insertionModeStack) = 0
        THEN [s EXCEPT !.call = "insertionModeStack.pop", !.panic = TRUE]
        ELSE [s EXCEPT !.call = "insertionModeStack.pop",
                       !.ret = s.insertionModeStack[Len(s.insertionModeStack)],
                       !.insertionModeStack = Front(@)]

\* insertionModeStack.top: node.go 254-259
insertionModeStackTop(s) ==
    [s EXCEPT !.call = "insertionModeStack.top",
              !.ret = IF Len(s.insertionModeStack) > 0
                         THEN s.insertionModeStack[Len(s.insertionModeStack)]
                         ELSE NilMode]

\* oldChild is neither nil nor a child of n, which is what the comment of
\* node.go 73-75 takes it to be
Stray(tr, n, old) == old # Nil /\ tr[old].Parent # n

\* The call made last; stray says that it was a call of InsertBefore with a
\* stray oldChild.  Such a call is the last one of a run, as a panic is.
\* hang says that it was a call that never returns.  In a call of
\* reparentChildren n is dst and c is src.
NoCall ==
    [name |-> "none", n |-> Nil, c |-> Nil, old |-> Nil, stray |-> FALSE,
     hang |-> FALSE]

\* the program is still making calls
Running == treePanic = FALSE /\ op.stray = FALSE /\ op.hang = FALSE

TreeInit ==
    /\ tree = [x \in Nodes |-> NewNode]
    /\ treePanic = FALSE
    /\ op = NoCall
    /\ heap = NoHeap
    /\ stacks = NoStacks

\* a call of n.InsertBefore(c, old): node.go 78-101
DoInsertBefore ==
    /\ Running
    /\ \E n \in Nodes, c \in Nodes, old \in Nodes \cup {Nil} :
        /\ op' = [name |-> "InsertBefore", n |-> n, c |-> c, old |-> old,
                  stray |-> Stray(tree, n, old), hang |-> FALSE]
        /\ IF Attached(tree, c)
              THEN treePanic' = TRUE /\ tree' = tree
              ELSE treePanic' = FALSE /\ tree' = InsertBefore(tree, n, c, old)
    /\ UNCHANGED heap
    /\ UNCHANGED stacks
    /\ UNCHANGED tokVars

\* a call of n.AppendChild(c): node.go 106-119
DoAppendChild ==
    /\ Running
    /\ \E n \in Nodes, c \in Nodes :
        /\ op' = [name |-> "AppendChild", n |-> n, c |-> c, old |-> Nil,
                  stray |-> FALSE, hang |-> FALSE]
        /\ IF Attached(tree, c)
              THEN treePanic' = TRUE /\ tree' = tree
              ELSE treePanic' = FALSE /\ tree' = AppendChild(tree, n, c)
    /\ UNCHANGED heap
    /\ UNCHANGED stacks
    /\ UNCHANGED tokVars

\* a call of n.RemoveChild(c): node.go 125-144
DoRemoveChild ==
    /\ Running
    /\ \E n \in Nodes, c \in Nodes :
        /\ op' = [name |-> "RemoveChild", n |-> n, c |-> c, old |-> Nil,
                  stray |-> FALSE, hang |-> FALSE]
        /\ IF tree[c].Parent # n
              THEN treePanic' = TRUE /\ tree' = tree
              ELSE treePanic' = FALSE /\ tree' = RemoveChild(tree, n, c)
    /\ UNCHANGED heap
    /\ UNCHANGED stacks
    /\ UNCHANGED tokVars

\* a call of reparentChildren(dst, src): node.go 156-165
DoReparentChildren ==
    /\ Running
    /\ \E dst \in Nodes, src \in Nodes :
        \E r \in {reparentChildren(tree, dst, src)} :
            /\ op' = [name |-> "reparentChildren", n |-> dst, c |-> src,
                      old |-> Nil, stray |-> FALSE, hang |-> r.end = "hang"]
            /\ treePanic' = (r.end = "panic")
            /\ tree' = r.tree
    /\ UNCHANGED heap
    /\ UNCHANGED stacks
    /\ UNCHANGED tokVars

\* the nodes clone is called for: an element, a component, an element of
\* another namespace without attributes, and a text without an Attr slice
SampleNodes ==
    { [ f |-> [ZeroNode EXCEPT !.Type = "ElementNode", !.DataAtom = "a",
                               !.Data = "a"],
        attr |-> << [Key |-> "href", Val |-> "1"], [Key |-> "id", Val |-> "2"] >>,
        loc |-> <<1>> ],
      [ f |-> [ZeroNode EXCEPT !.Type = "ElementNode", !.Data = "Foo",
                               !.Component = TRUE],
        attr |-> << [Key |-> "id", Val |-> "1"] >>,
        loc |-> <<1, 2>> ],
      [ f |-> [ZeroNode EXCEPT !.Type = "ElementNode", !.DataAtom = "svg",
                               !.Data = "svg", !.Namespace = "svg",
                               !.CustomElement = TRUE],
        attr |-> <<>>,
        loc |-> <<2>> ] }
\* a node whose Attr and whose Loc are nil
BareNodes ==
    { [ f |-> [ZeroNode EXCEPT !.Type = "TextNode", !.Data = "hi",
                               !.Expression = TRUE] ] }

\* the values an attribute is set to
AttrVals == {"1", "2"}

\* the heap with the nodes 1 and 2 allocated as the samples s1 and s2
HeapOf(s1, s2) ==
    LET s == <<s1, s2>>
        has(i) == "attr" \in DOMAIN s[i]
    IN [ live |-> {1, 2},
         fields |-> [x \in Nodes |->
                      IF x \notin {1, 2} THEN ZeroNode
                      ELSE IF ~has(x) THEN s[x].f
                      ELSE [s[x].f EXCEPT
                              !.Attr = SliceOf(AttrArray(x), Len(s[x].attr)),
                              !.Loc = SliceOf(LocArray(x), Len(s[x].loc))]],
         arrays |-> [a \in Arrays |->
                      IF a = AttrArray(1) /\ has(1) THEN s[1].attr
                      ELSE IF a = LocArray(1) /\ has(1) THEN s[1].loc
                      ELSE IF a = AttrArray(2) /\ has(2) THEN s[2].attr
                      ELSE IF a = LocArray(2) /\ has(2) THEN s[2].loc
                      ELSE <<>>],
         cloneOf |-> [x \in Nodes |-> Nil] ]

\* two nodes, apart or the second the child of the first, and the other nodes
\* not yet allocated
CloneInit ==
    /\ TokIdle
    /\ treePanic = FALSE
    /\ op = NoCall
    /\ stacks = NoStacks
    /\ \E s1 \in SampleNodes \cup BareNodes, s2 \in SampleNodes \cup BareNodes :
          heap = HeapOf(s1, s2)
    /\ \E t \in {[x \in Nodes |-> NewNode]} :
          tree \in {t, AppendChild(t, 1, 2)}

\* m := n.clone(): node.go 169-181.  The node the call allocates is the
\* first one not yet allocated.
DoClone ==
    /\ heap.live # Nodes
    /\ \E n \in heap.live :
        \E m \in {CHOOSE x \in Nodes \ heap.live :
                      \A y \in Nodes \ heap.live : x <= y} :
            /\ heap' = clone(heap, n, m)
            /\ tree' = [tree EXCEPT ![m] = NewNode]
            /\ op' = [name |-> "clone", n |-> n, c |-> m, old |-> Nil,
                      stray |-> FALSE, hang |-> FALSE]
    /\ UNCHANGED treePanic
    /\ UNCHANGED stacks
    /\ UNCHANGED tokVars

\* x.Attr[i].Val = v, for a node x of the heap: the elements of node.go 69
DoSetAttrVal ==
    /\ \E x \in heap.live :
        \E i \in 1..heap.fields[x].Attr.len, v \in AttrVals :
            /\ heap' = [heap EXCEPT !.arrays[heap.fields[x].Attr.array][i].Val = v]
            /\ op' = [name |-> "setAttrVal", n |-> x, c |-> Nil, old |-> Nil,
                      stray |-> FALSE, hang |-> FALSE]
    /\ UNCHANGED <<tree, treePanic>>
    /\ UNCHANGED stacks
    /\ UNCHANGED tokVars

CloneNext == DoClone \/ DoSetAttrVal

\* the stacks of at most MaxStack elements
SeqsOf(S) == UNION { [1..n -> S] : n \in 0..MaxStack }

\* any two stacks, and no call made yet
StackInit ==
    /\ TokIdle
    /\ tree = [x \in Nodes |-> NewNode]
    /\ treePanic = FALSE
    /\ op = NoCall
    /\ heap = NoHeap
    /\ \E ns \in SeqsOf(Nodes), ms \in SeqsOf(InsertionModes) :
          stacks = StacksOf(ns, ms)

\* a call of s.pop() on the nodeStack: node.go 187-195
DoNodeStackPop ==
    /\ ~stacks.panic
    /\ stacks' = nodeStackPop(stacks)
    /\ UNCHANGED <<tree, treePanic, op, heap>>
    /\ UNCHANGED tokVars

\* a call of s.top() on the nodeStack: node.go 198-203
DoNodeStackTop ==
    /\ ~stacks.panic
    /\ stacks' = nodeStackTop(stacks)
    /\ UNCHANGED <<tree, treePanic, op, heap>>
    /\ UNCHANGED tokVars

\* a call of s.pop() on the insertionModeStack: node.go 247-252
DoInsertionModeStackPop ==
    /\ ~stacks.panic
    /\ stacks' = insertionModeStackPop(stacks)
    /\ UNCHANGED <<tree, treePanic, op, heap>>
    /\ UNCHANGED tokVars

\* a call of s.top() on the insertionModeStack: node.go 254-259
DoInsertionModeStackTop ==
    /\ ~stacks.panic
    /\ stacks' = insertionModeStackTop(stacks)
    /\ UNCHANGED <<tree, treePanic, op, heap>>
    /\ UNCHANGED tokVars

StackNext ==
    DoNodeStackPop \/ DoNodeStackTop \/ DoInsertionModeStackPop
        \/ DoInsertionModeStackTop

TreeNext == DoInsertBefore \/ DoAppendChild \/ DoRemoveChild \/ DoReparentChildren

----------------------------------------------------------------------------
(* The specifications *)

Init == TokInit /\ TreeInit
Next == NextToken \/ NextError \/ NextFault
\* the tokenizer at work on one input
Spec == Init /\ [][Next]_vars

\* calls of the tree mutations on NumNodes nodes, and no tokenizer at work
TreeOnlyInit == TokIdle /\ TreeInit
TreeSpec == TreeOnlyInit /\ [][TreeNext]_vars

\* calls of pop and top on the two stacks
StackSpec == StackInit /\ [][StackNext]_vars

\* calls of clone, and assignments to the attributes of the nodes
CloneSpec == CloneInit /\ [][CloneNext]_vars

----------------------------------------------------------------------------
(* The properties *)

\* the state of the frontmatter before the call that returned toks[k]
FmBefore(k) == IF k = 1 THEN "Initial" ELSE toks[k - 1].fm

\* how many of the tokens returned are of the kind tt
Count(tt) == Cardinality({ k \in 1..Len(toks) : toks[k].tt = tt })

RECURSIVE Contiguous(_, _)
\* every raw span of s starts where the one before it ended, the first at from
Contiguous(s, from) ==
    s = <<>> \/ (Head(s).raw.Start = from /\ Contiguous(Tail(s), Head(s).raw.End))

\* where the raw span of the last token returned ends
LastEnd == IF toks = <<>> THEN 0 ELSE toks[Len(toks)].raw.End

\* C1: the raw spans of the tokens returned before the first ErrorToken
\* partition the input: each starts where the one before it ended, the first
\* at offset 0, none reaches beyond the input, and when Next returns
\* ErrorToken they have covered the whole input, so that no byte is left to
\* the ErrorToken alone.
C1_Partition ==
    /\ Contiguous(toks, 0)
    /\ \A k \in 1..Len(toks) :
          toks[k].raw.Start <= toks[k].raw.End /\ toks[k].raw.End <= BufLen
    /\ nErr > 0 => LastEnd = BufLen

\* C2: every call of Next returns: no call loops for ever, whatever the
\* input ends in.
C2_NextReturns == z.fault # "hang"

\* C3: no call of Next fails by an index or a slice out of range.
C3_NoIndexFault == z.fault # "index"

\* C4: the end condition is sticky: the error, once set, is never reset, and
\* once Next has returned ErrorToken every later call returns ErrorToken
\* again, with an empty raw span.
C4_StickyEnd ==
    [][ /\ z.err => z'.err
        /\ nErr > 0 => /\ z'.fault = NoFault
                       /\ z'.tt = "Error"
                       /\ z'.raw.Start = z'.raw.End
                       /\ toks' = toks ]_vars

\* C4 at work: Next has returned ErrorToken twice after at least one token
C4_Witness ==
    /\ nErr >= 2
    /\ toks # <<>>
    /\ z.err
    /\ z.tt = "Error"
    /\ z.raw.Start = z.raw.End

RECURSIVE ChainFrom(_, _, _)
\* the nodes met from x along NextSibling, at most k of them
ChainFrom(tr, x, k) ==
    IF x = Nil \/ k = 0 THEN <<>>
    ELSE <<x>> \o ChainFrom(tr, tr[x].NextSibling, k - 1)

\* the child chain of p; it has more than NumNodes entries when it does not end
Children(tr, p) == ChainFrom(tr, tr[p].FirstChild, NumNodes + 1)

\* the child chain of p ends at LastChild, PrevSibling is the inverse of
\* NextSibling along it, and every node on it has p as its Parent
WellFormedAt(tr, p) ==
    LET ch == Children(tr, p) IN
    /\ Len(ch) <= NumNodes
    /\ tr[p].LastChild = (IF ch = <<>> THEN Nil ELSE ch[Len(ch)])
    /\ \A i \in 1..Len(ch) :
          /\ tr[ch[i]].Parent = p
          /\ i > 1 => tr[ch[i]].PrevSibling = ch[i - 1]

OnChain(tr, p, x) == \E i \in 1..Len(Children(tr, p)) : Children(tr, p)[i] = x

WellFormed(tr) ==
    /\ \A p \in Nodes : WellFormedAt(tr, p)
    /\ \A p \in Nodes, q \in Nodes, x \in Nodes :
          (OnChain(tr, p, x) /\ OnChain(tr, q, x)) => p = q

\* C5 as stated: after every call of AppendChild, RemoveChild or InsertBefore
\* that does not panic, with any nodes as arguments, oldChild included, the
\* tree is well-formed.
C5_WellFormedAlways == WellFormed(tree)

\* C5 as amended: the tree is well-formed after every call that does not
\* panic, as long as every call of InsertBefore was made with an oldChild
\* that is nil or a child of n.
C5_WellFormedIfOldChildIsChild == (op.stray = FALSE) => WellFormed(tree)

\* C5 at work: InsertBefore has put c in front of the child old of n
C5_Witness ==
    /\ op.name = "InsertBefore"
    /\ op.old # Nil
    /\ op.stray = FALSE
    /\ treePanic = FALSE
    /\ tree[op.c].NextSibling = op.old
    /\ tree[op.old].PrevSibling = op.c
    /\ tree[op.c].Parent = op.n
    /\ tree[op.n].FirstChild = op.c
    /\ tree[op.n].LastChild = op.old

\* One byte of b read as script, at offset i, in the mode and at the brace
\* depth d: braces in strings, comments and regular expressions do not count,
\* and a slash of an end tag or of a self-closing tag opens no regular
\* expression.  The depth is -1 when a brace closes that was not opened or a
\* line ends inside a string or a regular expression.
ScanStep(b, i, mode, d) ==
    LET c    == b[i]
        nxt  == IF i < Len(b) THEN b[i + 1] ELSE cNUL
        prev == IF i > 1 THEN b[i - 1] ELSE cNUL
        go(j, m, e) == [i |-> j, mode |-> m, d |-> e]
    IN
    CASE mode = "code" /\ c = cLBrace -> go(i + 1, "code", d + 1)
      [] mode = "code" /\ c = cRBrace -> go(i + 1, "code", d - 1)
      [] mode = "code" /\ c = cDQuote -> go(i + 1, "dq", d)
      [] mode = "code" /\ c = cSQuote -> go(i + 1, "sq", d)
      [] mode = "code" /\ c = cBTick -> go(i + 1, "bt", d)
      [] mode = "code" /\ c = cSlash /\ nxt = cSlash -> go(i + 2, "line", d)
      [] mode = "code" /\ c = cSlash /\ nxt = cStar -> go(i + 2, "block", d)
      [] mode = "code" /\ c = cSlash /\ nxt \notin {cSlash, cStar}
            /\ prev # cLT /\ nxt # cGT -> go(i + 1, "regex", d)
      [] mode = "line" /\ c \in {cLF, cCR} -> go(i + 1, "code", d)
      [] mode = "block" /\ c = cStar /\ nxt = cSlash -> go(i + 2, "code", d)
      [] mode \in {"dq", "sq", "bt", "regex"} /\ c = cBSlash -> go(i + 2, mode, d)
      [] mode \in {"dq", "sq", "regex"} /\ c \in {cLF, cCR} -> go(i + 1, mode, -1)
      [] mode = "dq" /\ c = cDQuote -> go(i + 1, "code", d)
      [] mode = "sq" /\ c = cSQuote -> go(i + 1, "code", d)
      [] mode = "bt" /\ c = cBTick -> go(i + 1, "code", d)
      [] mode = "regex" /\ c = cSlash -> go(i + 1, "code", d)
      [] OTHER -> go(i + 1, mode, d)

RECURSIVE BraceScan(_, _, _, _)
\* The depth of the braces of b from offset i on, -1 when they are not
\* balanced or when b ends inside a string, a block comment or a regular
\* expression
BraceScan(b, i, mode, d) ==
    IF d < 0 THEN -1
    ELSE IF i > Len(b) THEN (IF mode \in {"code", "line"} THEN d ELSE -1)
    ELSE LET s == ScanStep(b, i, mode, d) IN BraceScan(b, s.i, s.mode, s.d)

\* the expression braces of b are balanced
Balanced(b) == BraceScan(b, 1, "code", 0) = 0

\* C6: for an input whose expression braces are balanced, Next never has
\* returned more EndExpression than StartExpression tokens, and has returned
\* as many of the one as of the other when it returns ErrorToken.
C6_ExpressionBalance ==
    Balanced(buf) =>
        /\ Count("EndExpression") <= Count("StartExpression")
        /\ nErr > 0 => Count("StartExpression") = Count("EndExpression")

strFence == <<cDash, cDash, cDash>>

\* b begins with three dashes, a newline, a text without three dashes in a
\* row, a newline and three dashes
FrontmatterDoc(b) ==
    /\ Len(b) >= 8
    /\ SubSeq(b, 1, 4) = strFence \o <<cLF>>
    /\ \E k \in 5..(Len(b) - 3) :
          /\ SubSeq(b, k, k + 3) = <<cLF>> \o strFence
          /\ Index(SubSeq(b, 5, k - 1), strFence) = -1

\* C7: for an input that begins with an opening fence, a frontmatter text
\* and a closing fence, with or without bytes after it, Next has returned
\* exactly two FrontmatterFence tokens when it returns ErrorToken.
C7_FrontmatterPairing ==
    (FrontmatterDoc(buf) /\ nErr > 0) => Count("FrontmatterFence") = 2

\* C8: every token returned while the frontmatter is Open, the closing fence
\* apart, is a Text token.
C8_OpenFrontmatterIsText ==
    \A k \in 1..Len(toks) :
        (FmBefore(k) = "Open" /\ toks[k].fm = "Open") => toks[k].tt = "Text"

\* C9: a StartTag, SelfClosingTag or EndTag token returned while the
\* frontmatter is Initial leaves it Closed, and no FrontmatterFence token is
\* returned after it.
C9_TagDisablesFrontmatter ==
    \A k \in 1..Len(toks) :
        (toks[k].tt \in {"StartTag", "SelfClosingTag", "EndTag"}
            /\ FmBefore(k) = "Initial")
        => /\ toks[k].fm = "Closed"
           /\ \A j \in (k + 1)..Len(toks) : toks[j].tt # "FrontmatterFence"

\* the kind and the raw span of toks[k]
Span(k) == <<toks[k].tt, toks[k].raw.Start, toks[k].raw.End>>

docScriptTokens ==
    << <<"StartTag", 0, 8>>, <<"Text", 8, 17>>, <<"EndTag", 17, 26>>,
       <<"Text", 26, 28>>, <<"EndTag", 28, 37>> >>

LastTok == toks[Len(toks)]
NameOf(tok) == Slice(tok.data.Start, tok.data.End)

\* Next has just returned a token, without a fault and before the end of the
\* input was met
JustReturned == toks # <<>> /\ nErr = 0 /\ z.fault = NoFault /\ ~z.err

\* the token returned last is a start tag that ends with ">"
StartTagClosed ==
    /\ JustReturned
    /\ LastTok.tt \in {"StartTag", "SelfClosingTag"}
    /\ LastTok.raw.End - LastTok.raw.Start >= 2
    /\ LastTok.raw.End <= BufLen
    /\ SliceAt(LastTok.raw.End - 1) = cGT

FragmentAhead ==
    /\ z.fault = NoFault
    /\ ~z.err
    /\ z.fm # "Open"
    /\ z.rawTag = <<>>
    /\ z.raw.End + 2 < BufLen
    /\ SliceAt(z.raw.End) = cLT
    /\ IsTagSpace(SliceAt(z.raw.End + 1))

\* C12: when the markup that Next is about to read begins with "<", a
\* whitespace byte and attributes, the call aborts with the fault of the
\* fragment shorthand and no token is returned.
C12_FragmentFault ==
    [][ FragmentAhead => (z'.fault = "fragment" /\ toks' = toks) ]_vars

\* C12 at work: Next has aborted on the fragment with attributes
C12_Witness ==
    /\ buf = docFragment
    /\ z.fault = "fragment"
    /\ toks = <<>>
    /\ z.raw.Start = 0

\* the input is a start tag whose first attribute is an expression in braces,
\* with or without a key, that begins with "/" and the byte c
AttrExpressionHeads ==
    { Bytes(<<"<","a"," ","{","/">>), Bytes(<<"<","a"," ","b","=","{","/">>) }
AttrExpressionBegins(c) ==
    \E p \in AttrExpressionHeads :
        /\ Len(buf) > Len(p)
        /\ SubSeq(buf, 1, Len(p)) = p
        /\ buf[Len(p) + 1] = c

\* Next has been called
Called == toks # <<>> \/ nErr > 0 \/ z.fault # NoFault

\* C13: in the expression of an attribute the opener of a block comment
\* makes Next abort with the comment fault and return no token, and a line
\* comment is read without that fault.
C13_BlockCommentFault ==
    /\ (AttrExpressionBegins(cStar) /\ Called) => (z.fault = "comment" /\ toks = <<>>)
    /\ AttrExpressionBegins(cSlash) => z.fault # "comment"

\* the call made in this step inserts a node that has a parent or a sibling
InsertsAttached ==
    /\ op'.name \in {"InsertBefore", "AppendChild"}
    /\ \/ tree[op'.c].Parent # Nil
       \/ tree[op'.c].PrevSibling # Nil
       \/ tree[op'.c].NextSibling # Nil

\* C14: InsertBefore and AppendChild panic when the node to insert has a
\* Parent, a PrevSibling or a NextSibling, and then no link of any node has
\* changed.
C14_AttachedPanics ==
    [][ InsertsAttached => (treePanic' /\ tree' = tree) ]_vars

\* C14 at work: a call to insert a child of another node has panicked
C14_Witness ==
    /\ treePanic
    /\ op.name \in {"InsertBefore", "AppendChild"}
    /\ tree[op.c].Parent # Nil
    /\ tree[op.c].Parent # op.n

\* the sequence s with c put in front of its entry old, or at its end when
\* old is nil
InsertedBefore(s, c, old) ==
    IF old = Nil THEN Append(s, c)
    ELSE LET i == CHOOSE j \in 1..Len(s) : s[j] = old
         IN SubSeq(s, 1, i - 1) \o <<c>> \o SubSeq(s, i, Len(s))

\* the call made in this step is an InsertBefore that did not panic, with an
\* oldChild that is nil or a child of n
InsertBeforeDone == op'.name = "InsertBefore" /\ ~treePanic' /\ ~op'.stray

\* the links a call n.InsertBefore(c, old) leaves alone: Parent but of c,
\* FirstChild and LastChild but of n, PrevSibling but of c and old, and
\* NextSibling but of c and of the node that was in front of the place
InsertBeforeFrame(n, c, old) ==
    LET prev == IF old # Nil THEN tree[old].PrevSibling ELSE tree[n].LastChild IN
    \A x \in Nodes :
        /\ x # c => tree'[x].Parent = tree[x].Parent
        /\ x # n => /\ tree'[x].FirstChild = tree[x].FirstChild
                    /\ tree'[x].LastChild = tree[x].LastChild
        /\ x \notin {c, old} => tree'[x].PrevSibling = tree[x].PrevSibling
        /\ x \notin {c, prev} => tree'[x].NextSibling = tree[x].NextSibling

\* C15: n.InsertBefore(newChild, oldChild), with newChild detached and
\* oldChild a child of n, makes the children of n the children it had with
\* newChild right in front of oldChild, and with oldChild nil the children it
\* had followed by newChild; newChild has n as its Parent, and no other link
\* of any node changes.
C15_InsertBeforeSplices ==
    [][ InsertBeforeDone =>
            /\ Children(tree', op'.n)
                    = InsertedBefore(Children(tree, op'.n), op'.c, op'.old)
            /\ tree'[op'.c].Parent = op'.n
            /\ InsertBeforeFrame(op'.n, op'.c, op'.old) ]_vars

\* C15 at work: InsertBefore has put c between two children of n
C15_Witness ==
    /\ op.name = "InsertBefore"
    /\ ~treePanic
    /\ ~op.stray
    /\ op.old # Nil
    /\ Len(Children(tree, op.n)) = 3
    /\ Children(tree, op.n)[2] = op.c
    /\ Children(tree, op.n)[3] = op.old

\* the sequence s without its entries c
Without(s, c) == SelectSeq(s, LAMBDA x : x # c)

AppendChildOutcome(n, c) ==
    IF Attached(tree, c) THEN <<TRUE, tree>> ELSE <<FALSE, AppendChild(tree, n, c)>>
InsertBeforeNilOutcome(n, c) ==
    IF Attached(tree, c) THEN <<TRUE, tree>>
                         ELSE <<FALSE, InsertBefore(tree, n, c, Nil)>>

\* C17: n.AppendChild(c) and n.InsertBefore(c, nil) panic in the same cases
\* and leave the same links in all nodes: every call of the one ends as the
\* other would have ended in its place.
C17_AppendIsInsertBeforeNil ==
    [][ /\ op'.name = "AppendChild" =>
              <<treePanic', tree'>> = InsertBeforeNilOutcome(op'.n, op'.c)
        /\ (op'.name = "InsertBefore" /\ op'.old = Nil) =>
              <<treePanic', tree'>> = AppendChildOutcome(op'.n, op'.c) ]_vars

\* C17 at work: AppendChild has put c behind another child of n
C17_Witness ==
    /\ op.name = "AppendChild"
    /\ ~treePanic
    /\ tree[op.n].LastChild = op.c
    /\ tree[op.c].PrevSibling \notin {Nil, op.c}
    /\ tree[op.c].Parent = op.n
    /\ tree = InsertBefore([tree EXCEPT ![op.c] = NewNode,
                                        ![tree[op.c].PrevSibling].NextSibling = Nil,
                                        ![op.n].LastChild = tree[op.c].PrevSibling],
                            op.n, op.c, Nil)

\* the nodes on the sequence s
Range(s) == { s[i] : i \in 1..Len(s) }

RECURSIVE DescendantsWithin(_, _, _)
\* the nodes met from x by at most k steps from a node to one of its children
DescendantsWithin(tr, x, k) ==
    IF k = 0 THEN {}
    ELSE LET ch == Range(Children(tr, x)) IN
         ch \cup UNION { DescendantsWithin(tr, y, k - 1) : y \in ch }

\* the children of x, their children, and so on
Descendants(tr, x) == DescendantsWithin(tr, x, NumNodes)

\* the step is a call of reparentChildren(dst, src) with dst another node than
\* src and not below src
ReparentsElsewhere ==
    /\ op'.name = "reparentChildren"
    /\ op'.n # op'.c
    /\ op'.n \notin Descendants(tree, op'.c)

\* C18: reparentChildren(dst, src), with dst different from src and not a
\* descendant of src, returns; after it src has no children, and the children
\* of dst are the ones it had, followed by the former children of src in
\* their order, each with dst as its Parent.
C18_ReparentMovesAll ==
    [][ ReparentsElsewhere =>
          /\ ~treePanic' /\ ~op'.hang
          /\ tree'[op'.c].FirstChild = Nil
          /\ tree'[op'.c].LastChild = Nil
          /\ Children(tree', op'.n) = Children(tree, op'.n) \o Children(tree, op'.c)
          /\ \A x \in Range(Children(tree, op'.c)) : tree'[x].Parent = op'.n
      ]_vars

\* C18 at work: reparentChildren has moved a child of src behind src, which
\* is itself the child of dst
C18_Witness ==
    /\ op.name = "reparentChildren"
    /\ ~treePanic /\ ~op.hang
    /\ op.n # op.c
    /\ tree[op.c].FirstChild = Nil
    /\ Len(Children(tree, op.n)) = 2
    /\ Children(tree, op.n)[1] = op.c
    /\ Children(tree, op.n)[2] \notin {op.n, op.c}
    /\ tree[op.n].Parent = Nil

\* the step is a call m := n.clone() that finds n with the links, the fields,
\* the attributes and the locations it leaves it with, as it does every node
\* allocated before the call
CloneLeavesAlone(x) ==
    /\ tree'[x] = tree[x]
    /\ heap'.fields[x] = heap.fields[x]
    /\ AttrOf(heap', x) = AttrOf(heap, x)
    /\ LocOf(heap', x) = LocOf(heap, x)

\* C19: m := n.clone() is a node not allocated before, with its five links
\* nil and with the Type, the Data, the DataAtom, the attributes and the
\* locations of n; n and every other node are as they were; and an
\* assignment to an attribute of a clone changes no attribute of the node it
\* was cloned from.
C19_CloneIsDetachedCopy ==
    [][ /\ op'.name = "clone" =>
              /\ op'.c \notin heap.live
              /\ op'.c \in heap'.live
              /\ tree'[op'.c] = NewNode
              /\ heap'.fields[op'.c].Type = heap.fields[op'.n].Type
              /\ heap'.fields[op'.c].Data = heap.fields[op'.n].Data
              /\ heap'.fields[op'.c].DataAtom = heap.fields[op'.n].DataAtom
              /\ AttrOf(heap', op'.c) = AttrOf(heap, op'.n)
              /\ LocOf(heap', op'.c) = LocOf(heap, op'.n)
              /\ \A x \in heap.live : CloneLeavesAlone(x)
        /\ (op'.name = "setAttrVal" /\ heap.cloneOf[op'.n] # Nil) =>
              AttrOf(heap', heap.cloneOf[op'.n]) = AttrOf(heap, heap.cloneOf[op'.n])
      ]_vars

\* C19 at work: an attribute of a clone has been set, and the attributes of
\* the clone are no longer those of the node it was cloned from, which is the
\* parent of another node
C19_Witness ==
    /\ op.name = "setAttrVal"
    /\ heap.cloneOf[op.n] # Nil
    /\ tree[op.n] = NewNode
    /\ tree[heap.cloneOf[op.n]].FirstChild # Nil
    /\ Len(AttrOf(heap, op.n)) = 2
    /\ Len(AttrOf(heap, heap.cloneOf[op.n])) = 2
    /\ AttrOf(heap, op.n) # AttrOf(heap, heap.cloneOf[op.n])
    /\ heap.fields[op.n].Attr.array # heap.fields[heap.cloneOf[op.n]].Attr.array

\* the bytes a tag name does not hold
NameEnders == {Code(" "), Code("NL"), Code("CR"), Code("TAB"), Code("FF"), cSlash, cGT}

\* the tag name span of tok begins right after the "<" or the "</" that
\* begins tok, and holds none of the bytes that end a name
NameSpanIsName(tok) ==
    /\ tok.data.Start = tok.raw.Start + (IF tok.tt = "EndTag" THEN 2 ELSE 1)
    /\ \A i \in tok.data.Start..(tok.data.End - 1) : SliceAt(i) \notin NameEnders

\* C20: the tag name span of every StartTag, SelfClosingTag and EndTag token
\* with a name begins at the byte after "<" or "</" and holds no white space,
\* no "/" and no ">", whether the tag is terminated or not.
C20_TagNameSpan ==
    \A k \in 1..Len(toks) :
        (/\ toks[k].tt \in {"StartTag", "SelfClosingTag", "EndTag"}
         /\ toks[k].data.Start < toks[k].data.End) => NameSpanIsName(toks[k])

\* a byte and a string in lower case
LowerByte(c) == IF 65 <= c /\ c <= 90 THEN c + 32 ELSE c
LowerCase(s) == [i \in 1..Len(s) |-> LowerByte(s[i])]

\* the raw elements whose text Next reads by readRawOrRCDATA and not by
\* readScript, the loop of title and textarea or the loop of plaintext
DirectRawNames == {strStyle, strIframe, strNoembed, strNoframes, strXmp}
OtherRawNames == {strScript, strTitle, strTextarea, strPlaintext}

\* at offset i begins "</name" in any letter case, followed by white space,
\* "/" or ">"
RawEndAt(i, name) ==
    /\ i + 2 + Len(name) < BufLen
    /\ SliceAt(i) = cLT
    /\ SliceAt(i + 1) = cSlash
    /\ LowerCase(Slice(i + 2, i + 2 + Len(name))) = LowerCase(name)
    /\ (IsTagSpace(SliceAt(i + 2 + Len(name)))
          \/ SliceAt(i + 2 + Len(name)) \in {cSlash, cGT})

\* where the raw text that begins at from ends
RawTextEnd(from, name) ==
    LET ends == { i \in from..BufLen : RawEndAt(i, name) }
    IN IF ends = {} THEN BufLen ELSE CHOOSE i \in ends : \A j \in ends : i <= j

\* Next has just returned the start tag of a raw element that is not script,
\* title, textarea or plaintext: one of the five raw elements by its name in
\* any letter case, or an element that readStartTag took for raw
RawStartReturned ==
    /\ JustReturned
    /\ LastTok.tt = "StartTag"
    /\ \/ LowerCase(NameOf(LastTok)) \in DirectRawNames
       \/ (z.rawTag # <<>> /\ LowerCase(NameOf(LastTok)) \notin OtherRawNames)

\* C21: after the start tag of such a raw element the next token is a Text
\* token that extends exactly up to the first "</name" followed by white
\* space, "/" or ">", the name compared without regard to letter case, and to
\* the end of the input if there is none.
C21_RawTextEndsAtEndTag ==
    [][ (RawStartReturned
           /\ RawTextEnd(LastTok.raw.End, NameOf(LastTok)) > LastTok.raw.End) =>
          /\ Len(toks') = Len(toks) + 1
          /\ toks'[Len(toks')].tt = "Text"
          /\ toks'[Len(toks')].raw.Start = LastTok.raw.End
          /\ toks'[Len(toks')].raw.End
                = RawTextEnd(LastTok.raw.End, NameOf(LastTok)) ]_vars

\* toks[k] is the start tag of a title or of a textarea whose closing tag is
\* in the input
TitleOpensAt(k) ==
    /\ toks[k].tt = "StartTag"
    /\ NameOf(toks[k]) \in {strTitle, strTextarea}
    /\ RawTextEnd(toks[k].raw.End, NameOf(toks[k])) < BufLen

\* C22: in the text of a title or of a textarea, whatever bytes it holds, a
\* "{" right after the start tag gives a StartExpression token, no "<" before
\* the closing tag of the element gives a tag or a comment, and the first
\* "</title" or "</textarea" followed by white space, "/" or ">" is returned
\* as an EndTag token.  Stated of the tokens Next has returned when it
\* returns ErrorToken.
C22_TitleTextEndsAtEndTag ==
    nErr > 0 =>
      \A k \in 1..Len(toks) : TitleOpensAt(k) =>
        LET from == toks[k].raw.End
            to == RawTextEnd(from, NameOf(toks[k]))
        IN /\ \E j \in (k + 1)..Len(toks) :
                 toks[j].tt = "EndTag" /\ toks[j].raw.Start = to
           /\ \A j \in (k + 1)..Len(toks) :
                 (toks[j].raw.Start < to) =>
                     toks[j].tt \in {"Text", "StartExpression", "EndExpression"}
           /\ (SliceAt(from) = cLBrace /\ k < Len(toks)) =>
                 toks[k + 1].tt = "StartExpression"

\* What the calls of TagAttr return for the tag token just returned, one
\* after the other until moreAttr is false: part_002 1791-1806.  key and val
\* are the slices of lines 1798 and 1799, val as it is handed to
\* convertNewlines and unescape.
TagAttrs(t) ==
    IF t.tt \notin {"StartTag", "SelfClosingTag"} THEN <<>>
    ELSE [ i \in 1..Len(t.attr) |->
             [ key |-> Slice(t.attr[i][1].Start, t.attr[i][1].End),
               keyLoc |-> t.attr[i][1].Start,
               val |-> Slice(t.attr[i][2].Start, t.attr[i][2].End),
               type |-> t.attrTypes[i] ] ]

\* where the i-th form of TagOf(fs) begins
RECURSIVE FormAt(_, _)
FormAt(fs, i) == IF i = 1 THEN 3 ELSE FormAt(fs, i - 1) + Len(AttrForms[fs[i - 1]].text) + 1

\* the attributes of TagOf(fs) as the forms give them: key, offset of the
\* key, value and type of every form with a key, in the order of the source
RECURSIVE ExpectedAttrs(_, _)
ExpectedAttrs(fs, i) ==
    IF i > Len(fs) THEN <<>>
    ELSE LET f == AttrForms[fs[i]]
             at == FormAt(fs, i)
         IN (IF f.key[2] = 0 THEN <<>>
             ELSE << [ key |-> SubSeq(f.text, f.key[1] + 1, f.key[1] + f.key[2]),
                       keyLoc |-> at + f.key[1],
                       val |-> SubSeq(f.text, f.val[1] + 1, f.val[1] + f.val[2]),
                       type |-> f.type ] >>) \o ExpectedAttrs(fs, i + 1)

BraceAttrAt(i) == z.attrTypes[i] \in {ShorthandAttribute, SpreadAttribute}

\* C24: every attribute saved for a tag token as Shorthand or as Spread has
\* an empty value span and a key span that lies inside the braces: it does
\* not end before it begins, the closing brace is the byte after it, and it
\* holds neither the opening brace nor the leading dots.
C24_BraceKeyInsideBraces ==
    (JustReturned /\ LastTok.tt \in {"StartTag", "SelfClosingTag"}) =>
        \A i \in 1..Len(z.attr) : BraceAttrAt(i) =>
            LET key == z.attr[i][1]
                val == z.attr[i][2]
            IN /\ val.Start = val.End
               /\ key.Start <= key.End
               /\ SliceAt(key.End) = cRBrace
               /\ key.Start > 0
               /\ SliceAt(key.Start - 1) =
                      (IF z.attrTypes[i] = SpreadAttribute THEN Code(".") ELSE cLBrace)
               /\ (z.attrTypes[i] = SpreadAttribute) =>
                      SubSeq(Slice(key.Start, key.End), 1, 3) # strDots

\* C25: Next returns a FrontmatterFence token only when the three bytes it
\* has consumed last are three "-", so that dashes with other bytes between
\* them, such as a string returned as a Text token of its own, never make a
\* fence.
C25_FenceIsThreeDashes ==
    \A k \in 1..Len(toks) :
        toks[k].tt = "FrontmatterFence" =>
            /\ toks[k].raw.End >= 3
            /\ Slice(toks[k].raw.End - 3, toks[k].raw.End) = <<cDash, cDash, cDash>>

\* the tokens returned whose raw span begins at p or after it: kind and span
TokensFrom(p) ==
    LET s == SelectSeq(toks, LAMBDA tok : tok.raw.Start >= p)
    IN [i \in 1..Len(s) |-> <<s[i].tt, s[i].raw.Start, s[i].raw.End>>]

\* a token of the kind tt over len bytes from from on, or none when len is 0
TokIf(tt, from, len) == IF len = 0 THEN <<>> ELSE << <<tt, from, from + len>> >>

\* where "</title>" begins in TitleDoc(fm, text, sep)
TitleCloseAt(fm, text, sep) == 6 + Len(fm) + Len(sep) + 7 + Len(text)

\* the tokens of TitleDoc(fm, text, sep) from the end tag of the title on
TitleTokens(fm, text, sep) ==
    LET e == TitleCloseAt(fm, text, sep)
        q == e + 8 + Len(sep)
    IN << <<"EndTag", e, e + 8>> >> \o TokIf("Text", e + 8, Len(sep))
         \o << <<"StartTag", q, q + 3>>, <<"StartTag", q + 3, q + 6>>,
               <<"Text", q + 6, q + 8>>, <<"EndTag", q + 8, q + 12>>,
               <<"EndTag", q + 12, q + 16>> >>

\* C26: in a document made of a closed frontmatter, a title whose text has
\* neither quotes nor braces, and further elements, the raw text of the title
\* ends at "</title>": a Text token ends where "</title>" begins, and after
\* it come EndTag and then the StartTag, Text and EndTag tokens of the
\* elements that follow.
C26_TitleDoesNotSwallow ==
    (buf \in docTitleDocs /\ nErr > 0) =>
        \A fm \in FmBodies, text \in TitleTexts, sep \in Seps :
            buf = TitleDoc(fm, text, sep) =>
                LET e == TitleCloseAt(fm, text, sep) IN
                /\ TokensFrom(e) = TitleTokens(fm, text, sep)
                /\ text # <<>> =>
                      \E k \in 1..Len(toks) :
                          toks[k].tt = "Text" /\ toks[k].raw.End = e

\* the step is a call of pop on the stack s, which leaves it as t, returns
\* ret and panics or not: it panics when s is empty and leaves s alone, and
\* else it returns the last element of s, the one top returns, and leaves s
\* without it
PopsAsStated(s, t, ret, panic, top) ==
    IF s = <<>> THEN panic /\ t = s
    ELSE /\ ~panic
         /\ ret = s[Len(s)]
         /\ ret = top
         /\ t = SubSeq(s, 1, Len(s) - 1)
         /\ Len(t) = Len(s) - 1

\* C27: pop on an empty stack panics, on the nodeStack and on the
\* insertionModeStack; on a stack that is not empty it removes and returns
\* the last element, the one top returns, and the stack is shorter by one.
C27_PopPanicsOnEmpty ==
    [][ /\ stacks'.call = "nodeStack.pop" =>
              PopsAsStated(stacks.nodeStack, stacks'.nodeStack, stacks'.ret,
                           stacks'.panic, nodeStackTop(stacks).ret)
        /\ stacks'.call = "insertionModeStack.pop" =>
              PopsAsStated(stacks.insertionModeStack, stacks'.insertionModeStack,
                           stacks'.ret, stacks'.panic,
                           insertionModeStackTop(stacks).ret) ]_vars

\* the byte c after a "<" makes the two the beginning of a tag, of a comment
\* or of a declaration
OpensMarkup(c) == IsLetter(c) \/ c \in {cSlash, Code("!"), cQuest, cGT}

\* C28: a "<" that is followed by another byte than a letter, "/", "!", "?"
\* or ">" is never a fault and never a tag, also when it is the first byte
\* of the token that Next is reading: Next does not fail with the panic of
\* the fragment shorthand, and no token other than a Text token begins with
\* such a "<".
C28_PlainAngleIsText ==
    /\ z.fault # "fragment"
    /\ \A k \in 1..Len(toks) :
          (/\ toks[k].tt \in {"StartTag", "SelfClosingTag", "EndTag", "Comment",
                               "Doctype"}
           /\ SliceAt(toks[k].raw.Start) = cLT
           /\ toks[k].raw.Start + 1 < BufLen)
              => OpensMarkup(SliceAt(toks[k].raw.Start + 1))

\* the bytes that close a string opened by the quote q
Delimiters(q) == IF q = cBTick THEN {cBTick} ELSE {q, cCR, cLF}

RECURSIVE StringEnd(_, _)
\* The offset after the first unescaped delimiter at or after offset i, where
\* a backslash escapes exactly the one byte after it; BufLen + 1 when the
\* string is not closed.
StringEnd(i, chars) ==
    IF i >= BufLen THEN BufLen + 1
    ELSE IF SliceAt(i) = cBSlash THEN StringEnd(i + 2, chars)
    ELSE IF SliceAt(i) \in chars THEN i + 1
    ELSE StringEnd(i + 1, chars)

\* C29: readString consumes the bytes up to and including the first
\* unescaped closing delimiter and skips exactly one byte per backslash, so
\* what follows the closing quote is scanned normally: in an expression
\* that opens the input and holds letters and then a string, a "}" right
\* after the closing delimiter of the string is returned as the
\* EndExpression token once the tokenizer has passed it.
C29_StringEndsAtUnescapedQuote ==
    \A p \in 1..(BufLen - 1) :
        (/\ SliceAt(0) = cLBrace
         /\ \A j \in 1..(p - 1) : IsLetter(SliceAt(j))
         /\ SliceAt(p) \in {cSQuote, cDQuote, cBTick})
            => LET e == StringEnd(p + 1, Delimiters(SliceAt(p))) IN
               (e < BufLen /\ SliceAt(e) = cRBrace /\ z.raw.End > e)
                   => \E k \in 1..Len(toks) :
                          /\ toks[k].tt = "EndExpression"
                          /\ toks[k].raw = [Start |-> e, End |-> e + 1]

\* the names that readStartTag hands to startTagIn to make the next token raw
RawTagNames == DirectRawNames \cup OtherRawNames

\* the last token is a start tag that Next has just returned and its name,
\* put in lower case, is in names
TagReturnedIn(names) ==
    /\ JustReturned
    /\ LastTok.tt \in {"StartTag", "SelfClosingTag"}
    /\ LowerCase(NameOf(LastTok)) \in names

\* a start tag in lower case whose name is a void element is a
\* SelfClosingTag, and one whose name is a raw element leaves the tokenizer
\* in raw mode
LowerCaseTagsClassified ==
    /\ (TagReturnedIn(VoidTags) /\ NameOf(LastTok) \in VoidTags)
           => LastTok.tt = "SelfClosingTag"
    /\ (TagReturnedIn(RawTagNames) /\ NameOf(LastTok) \in RawTagNames
            /\ LastTok.tt = "StartTag")
           => z.rawTag = NameOf(LastTok)

\* C30: startTagIn matches the tag name in any letter case: a start tag
\* whose name is, letter case aside, the name of a void element is returned
\* as a SelfClosingTag, and a start tag whose name is, letter case aside,
\* the name of a raw element leaves the tokenizer in raw mode (rawTag is
\* set), as it does for the name in lower case.
C30_StartTagInIgnoresCase ==
    /\ TagReturnedIn(VoidTags) => LastTok.tt = "SelfClosingTag"
    /\ (TagReturnedIn(RawTagNames) /\ LastTok.tt = "StartTag")
           => z.rawTag # <<>>

\* at offset e stands a start tag of three bytes: "<", a letter and ">"
ShortTagAt(e) ==
    /\ e + 3 <= BufLen
    /\ SliceAt(e) = cLT /\ IsLetter(SliceAt(e + 1)) /\ SliceAt(e + 2) = cGT

\* C31: after a self-closing start tag of a raw element no raw text is
\* read: when a start tag "<b>" follows the self-closing tag directly, the
\* next token is that start tag.
C31_SelfClosingRawReadsNoText ==
    \A k \in 1..(Len(toks) - 1) :
        (/\ toks[k].tt = "SelfClosingTag"
         /\ NameOf(toks[k]) \in RawTagNames
         /\ ShortTagAt(toks[k].raw.End))
            => /\ toks[k + 1].tt = "StartTag"
               /\ toks[k + 1].raw = [Start |-> toks[k].raw.End,
                                     End |-> toks[k].raw.End + 3]

\* the keys of the attributes of the tag that was read last
AttrKeys(t) ==
    { Slice(t.attr[k][1].Start, t.attr[k][1].End) : k \in 1..Len(t.attr) }

\* C32: a start tag whose name is not one of the raw elements sets the
\* pending raw tag if and only if one of its attributes has the key
\* "data-astro-raw", exactly.
C32_ForcedRawNeedsExactKey ==
    (/\ JustReturned
     /\ LastTok.tt = "StartTag"
     /\ LowerCase(NameOf(LastTok)) \notin RawTagNames)
        => (z.rawTag # <<>> <=> strAstroRaw \in AttrKeys(z))

\* C33: the raw span of every FrontmatterFence token is exactly the three
\* bytes "---", and the Text token before a closing fence ends right before
\* its dashes.
C33_FenceSpanIsThreeDashes ==
    \A k \in 1..Len(toks) :
        toks[k].tt = "FrontmatterFence"
            => /\ Slice(toks[k].raw.Start, toks[k].raw.End) = strDashes
               /\ (k > 1 /\ toks[k - 1].tt = "Text")
                      => toks[k - 1].raw.End = toks[k].raw.Start

\* the tokens after which a "{" opens an expression: a tag, the end of an
\* expression, or the fence that closes the frontmatter
OpensExpressions(tok) ==
    \/ tok.tt \in {"StartTag", "EndTag", "SelfClosingTag", "EndExpression"}
    \/ (tok.tt = "FrontmatterFence" /\ tok.fm = "Closed")

\* C34: a "{" is returned as StartExpression only if the most recent token
\* before it that is not a Text token is a tag, an EndExpression or the
\* closing FrontmatterFence; a "{" before any such token, at the start of
\* the input, is not a StartExpression.
C34_ExpressionStartNeedsBoundary ==
    \A k \in 1..Len(toks) :
        toks[k].tt = "StartExpression"
            => \E j \in 1..(k - 1) :
                   /\ OpensExpressions(toks[j])
                   /\ \A i \in (j + 1)..(k - 1) : toks[i].tt = "Text"

\* the number of tokens of the kind tt returned so far
CountOf(tt) == Cardinality({ k \in 1..Len(toks) : toks[k].tt = tt })

\* C35: after every return of Next the expression stack holds one counter
\* for each StartExpression token returned that has no EndExpression token
\* yet, and every counter on it is at least 0.
C35_ExpressionStackBalanced ==
    z.fault = NoFault
        => /\ Len(z.expressionStack)
                = CountOf("StartExpression") - CountOf("EndExpression")
           /\ \A i \in 1..Len(z.expressionStack) : z.expressionStack[i] >= 0

\* an expression has been closed, another is open, and a "{" inside it has
\* been counted
C35_Witness ==
    /\ z.fault = NoFault
    /\ CountOf("EndExpression") >= 1
    /\ Len(z.expressionStack) >= 1
    /\ z.expressionStack[Len(z.expressionStack)] >= 1

\* the steps of the frontmatter state on which a fence is returned
FenceSteps == { <<"Initial", "Open">>, <<"Open", "Closed">> }

\* the steps of the frontmatter state, those that leave it as it is included
ForwardSteps ==
    FenceSteps \cup { <<"Initial", "Closed">> }
        \cup { <<s, s>> : s \in {"Initial", "Open", "Closed"} }

\* C36: the frontmatter state only moves forward, from Initial to Open, from
\* Open to Closed or from Initial to Closed; a FrontmatterFence token is
\* returned on the steps Initial to Open and Open to Closed and on no other
\* step; and at most two FrontmatterFence tokens are returned.
C36_FrontmatterMovesForward ==
    [][ /\ <<z.fm, z'.fm>> \in ForwardSteps
        /\ (<<z.fm, z'.fm>> \in FenceSteps
              <=> (/\ Len(toks') = Len(toks) + 1
                   /\ toks'[Len(toks')].tt = "FrontmatterFence"))
        /\ Cardinality({ k \in 1..Len(toks') :
                            toks'[k].tt = "FrontmatterFence" }) <= 2 ]_vars

\* both fences have been returned and the frontmatter is closed
C36_Witness ==
    /\ CountOf("FrontmatterFence") = 2
    /\ z.fm = "Closed"
    /\ LastTok.tt = "FrontmatterFence"

\* C37: after every return of Next, 0 <= raw.Start <= data.Start <= data.End
\* <= raw.End <= len(buf): the raw span does not reach past the end of the
\* input and the data span lies inside the raw span.
C37_SpansOrdered ==
    (z.fault = NoFault /\ Called)
        => /\ 0 <= z.raw.Start
           /\ z.raw.Start <= z.data.Start
           /\ z.data.Start <= z.data.End
           /\ z.data.End <= z.raw.End
           /\ z.raw.End <= BufLen

\* every token returned has consumed at least one byte, and no more tokens
\* have been returned than the input has bytes
TokensConsume ==
    /\ \A k \in 1..Len(toks) : toks[k].raw.End > toks[k].raw.Start
    /\ Len(toks) <= BufLen

\* C38: every call of Next that returns another kind than Error leaves
\* raw.End > raw.Start, and the ErrorToken is returned after at most
\* len(buf) + 1 calls: at most len(buf) tokens come before it and no call
\* runs without end.
C38_ErrorWithinLenPlusOneCalls ==
    /\ TokensConsume
    /\ z.fault # "hang"

RECURSIVE AncestorsWithin(_, _, _)
\* the nodes met from x by at most k steps along the Parent links
AncestorsWithin(tr, x, k) ==
    IF k = 0 \/ tr[x].Parent = Nil THEN {}
    ELSE {tr[x].Parent} \cup AncestorsWithin(tr, tr[x].Parent, k - 1)

\* C39: as long as no call has panicked, no node is its own ancestor
\* through the Parent links.
C39_NoNodeIsItsOwnAncestor ==
    treePanic = FALSE
        => \A x \in Nodes : x \notin AncestorsWithin(tree, x, NumNodes)

\* no node of the tree is its own ancestor
Acyclic(tr) == \A x \in Nodes : x \notin AncestorsWithin(tr, x, NumNodes)

\* C40: reparentChildren(dst, src) terminates for every pair of nodes of a
\* tree without cycles, dst equal to src and dst below src included.
C40_ReparentChildrenTerminates ==
    (op.name = "reparentChildren" /\ Acyclic(tree)) => op.hang = FALSE

====
